---- MODULE Spec2Model ----
(***************************************************************************)
(* A model of the jetblack-fixengine session core: the incremental FIX     *)
(* read buffer, the admin and transport state machines, the acceptor       *)
(* orchestrator and the stream processor that supervises one connection.   *)
(*                                                                         *)
(* The module holds several specifications over one set of variables:      *)
(*   SpecRB    the read buffer driven as fix_read_async drives it          *)
(*   SpecFSM   the bare transition tables                                  *)
(*   SpecAdmin the initiator admin machine with its handlers               *)
(*   SpecSP    the stream processor with the acceptor orchestrator         *)
(*   SpecTSM   the transport machine over either admin machine             *)
(*   SpecLoop, SpecLoopConnect  the acceptor's main loop under a clock     *)
(*   SpecChecksum  the integrity fields of an encoded frame                *)
(*   SpecSend  overlapping send_message calls                              *)
(*   SpecAiofix  the aiofix read buffer under the loop of its test         *)
(*   SpecDelay  delay_for_time_period                                      *)
(* Each specification leaves the variables of the others at their idle     *)
(* value.                                                                  *)
(***************************************************************************)
EXTENDS Integers, Sequences, FiniteSets, TLC

VARIABLES
    \* ---- read buffer (FixReadBuffer) and its driver ----
    rb,          \* the FixReadBuffer object: queue, buf, index, required, state
    rb_last,     \* kind of the last event next_event() returned to the driver
    rb_stream,   \* the frames (ids) whose concatenation the peer sends
    rb_pos,      \* number of bytes of the stream passed to receive() so far
    rb_emitted,  \* data of the DataReady events, in order
    rb_split,    \* some chunk ended strictly inside a frame
    \* ---- bare transition tables (AdminStateTransition, TransportStateTransitions) ----
    fsm,         \* the machine: its table, its state and its last transition() call
    \* ---- admin state machine with handlers (AdminStateProcessor) ----
    adm_role,    \* "initiator" (InitiatorAdminStateMachine)
    adm_heartbeat_timeout,  \* engine.heartbeat_timeout
    adm,         \* the machine and its engine: state, seqnums, stored token
    adm_call,    \* the last process() call: state before, event, messages sent,
                 \* handlers run, exception raised, and the last message sent
                 \* before the call
    \* ---- stream processor (fix_stream_processor) with its Acceptor ----
    sp,          \* the processor's locals: state, queues, tasks, writer
    cancellation_event,  \* the asyncio.Event shared with the signal handlers
    acc,         \* the Acceptor: admin and transport state, seqnums, _send
    \* ---- the main loop of Acceptor.__call__ under a clock ----
    lp,          \* the clock, the acceptor with its send and receive times,
                 \* the pending wait, what was sent and when
    hist,        \* history: seqnums assigned, frames enqueued, yielded, delivered
    \* ---- the encoder's integrity fields (_regenerate_integrity, calc_checksum) ----
    ck,          \* the encoded message, the separator and flag, the frame built
                 \* and the two checksums
    \* ---- overlapping send_message calls on one session ----
    snd,         \* the session's outgoing seqnum, each call's position and
                 \* MsgSeqNum, the write queue
    \* ---- the aiofix read buffer under the loop of its test ----
    ax,          \* the buffer, the last event, the input, what was received
    \* ---- delay_for_time_period ----
    dt           \* the arguments and the pair returned

rbVars == <<rb, rb_last, rb_stream, rb_pos, rb_emitted, rb_split>>

----------------------------------------------------------------------------
(* Bytes are their ASCII codes.                                            *)

SOH == 1
BAR == 124
EQ == 61
D0 == 48
D1 == 49
D8 == 56
D9 == 57

\* python: buf[a:b] for 0 <= a, with b clipped to len(buf)
Slice(buf, a, b) ==
    LET hi == IF b > Len(buf) THEN Len(buf) ELSE b
    IN  IF a >= hi THEN << >> ELSE [i \in 1..(hi - a) |-> buf[a + i]]

\* python: buf.find(sep, start) for a one byte separator; 0-based, -1 if absent
Find(buf, sep, start) ==
    LET hits == {i \in start..(Len(buf) - 1) : buf[i + 1] = sep}
    IN  IF hits = {} THEN -1 ELSE CHOOSE i \in hits : \A j \in hits : i <= j

\* python: buf.startswith(prefix)
StartsWith(buf, prefix) ==
    /\ Len(buf) >= Len(prefix)
    /\ \A i \in 1..Len(prefix) : buf[i] = prefix[i]

\* python: buf.endswith(suffix)
EndsWith(buf, suffix) ==
    /\ Len(buf) >= Len(suffix)
    /\ \A i \in 1..Len(suffix) : buf[Len(buf) - Len(suffix) + i] = suffix[i]

\* python: buf.replace(a, b) for single bytes
Replace(buf, a, b) == [i \in 1..Len(buf) |-> IF buf[i] = a THEN b ELSE buf[i]]

RECURSIVE SumBytes(_)
SumBytes(buf) == IF buf = << >> THEN 0 ELSE buf[1] + SumBytes(Tail(buf))

\* python: value.lstrip(b'0')
RECURSIVE LStripZero(_)
LStripZero(value) ==
    IF value # << >> /\ value[1] = D0 THEN LStripZero(Tail(value)) ELSE value

IsDigit(b) == b >= D0 /\ b <= D9

\* python: int(value); -1 stands for the ValueError of a non-number
RECURSIVE ParseInt(_)
ParseInt(value) ==
    IF value = << >> \/ \E i \in 1..Len(value) : ~IsDigit(value[i])
    THEN -1
    ELSE IF Len(value) = 1 THEN value[1] - D0
         ELSE 10 * ParseInt(SubSeq(value, 1, Len(value) - 1))
              + (value[Len(value)] - D0)

\* python: str(n).encode('ascii') for n >= 0
RECURSIVE Str(_)
Str(n) == IF n < 10 THEN <<D0 + n>> ELSE Str(n \div 10) \o <<D0 + (n % 10)>>

\* python: f'{n:#03}' without the zero padding
Format03Unpadded(n) == Str(n)

\* python: f'{n:#03}' for 0 <= n < 1000
Format03(n) == <<D0 + (n \div 100), D0 + ((n \div 10) % 10), D0 + (n % 10)>>

\* calc_checksum(buf, sep, convert_sep_to_soh_for_checksum)
CalcChecksum(buf, sep, convert) ==
    LET b == IF sep # SOH /\ convert THEN Replace(buf, sep, SOH) ELSE buf
    IN  Format03(SumBytes(Slice(b, 0, Len(b) - 7)) % 256)

----------------------------------------------------------------------------
(* FixReadBuffer                                                           *)

\* the buffer of the tests: sep=b'|', convert_sep_to_soh_for_checksum=True,
\* validate=True
RbSep == BAR
RbConvert == TRUE
\* a buffer made with validate=False
RbValidateOff == FALSE

RbValidate == TRUE
SepLength == 1
ChecksumLength == 6 + SepLength

ReadStateValue ==
    [PROTOCOL_ERROR |-> 1, STATE_ERROR |-> 2, CLOSED |-> 3, DONE |-> 15,
     IDLE |-> 16, EXPECT_BEGIN_STRING |-> 32, EXPECT_BODY_LENGTH |-> 48,
     EXPECT_BODY |-> 64, END_OF_FILE |-> 80]

\* self._state & ReadState.EXPECT  (EXPECT = 0xf0)
IsExpecting(state) == (ReadStateValue[state] \div 16) % 16 # 0

\* input_state that does not tell the end-of-stream marker from an empty queue
InputStateMarkerUnseen(queue) ==
    IF Len(queue) = 0 THEN "EMPTY"
    ELSE IF Len(queue[1]) = 0 THEN "EMPTY"
    ELSE "HAS_DATA"

\* FixReadBuffer.input_state
InputState(queue) ==
    IF Len(queue) = 0 THEN "EMPTY"
    ELSE IF Len(queue[1]) = 0 THEN "EOF"
    ELSE "HAS_DATA"

RbNew ==
    [queue |-> << >>, buf |-> << >>, index |-> 0, required |-> -1,
     state |-> "IDLE"]

\* a handler's answer: the object after the call, the event (kind and data)
\* and whether the transition is complete
Resp(o, kind, data, complete) ==
    [obj |-> o, kind |-> kind, data |-> data, complete |-> complete]

\* FixReadBuffer._requeue_unprocessed
RequeueUnprocessed(o) ==
    IF Len(o.buf) > o.index
    THEN [o EXCEPT !.queue = <<Slice(o.buf, o.index, Len(o.buf))>> \o o.queue,
                   !.buf = Slice(o.buf, 0, o.index)]
    ELSE o

ProceedToNextState(o) == Resp(o, "none", << >>, TRUE)

RequestData(o) == Resp(o, "need", << >>, FALSE)

\* an end-of-file handler that leaves its transition incomplete
HandleEndOfFileIncomplete(o) == Resp(o, "eof", << >>, FALSE)

HandleEndOfFile(o) == Resp(o, "eof", << >>, TRUE)

\* self._buf += self._queue.popleft()
PopIntoBuf(o) == [o EXCEPT !.buf = o.buf \o Head(o.queue), !.queue = Tail(o.queue)]

ProcessBeginString(o) ==
    LET o1 == PopIntoBuf(o)
        soh_index == Find(o1.buf, RbSep, 0)
    IN  IF soh_index = -1 THEN Resp(o1, "need", << >>, FALSE)
        ELSE IF ~StartsWith(o1.buf, <<D8, EQ>>) THEN Resp(o1, "error", << >>, FALSE)
        ELSE Resp(RequeueUnprocessed([o1 EXCEPT !.index = soh_index + 1]),
                  "none", << >>, TRUE)

ProcessBodyLength(o) ==
    LET o1 == PopIntoBuf(o)
        soh_index == Find(o1.buf, RbSep, o1.index)
        raw == Slice(o1.buf, o1.index + 2, soh_index)
        value == IF Len(raw) > 1 /\ raw[1] = D0 THEN LStripZero(raw) ELSE raw
        body_length == ParseInt(value)
    IN  IF soh_index = -1 THEN Resp(o1, "need", << >>, FALSE)
        ELSE IF ~StartsWith(Slice(o1.buf, o1.index, soh_index), <<D9, EQ>>)
             THEN Resp(o1, "error", << >>, FALSE)
        ELSE IF body_length = -1 THEN Resp(o1, "error", << >>, FALSE)
        ELSE Resp(RequeueUnprocessed(
                      [o1 EXCEPT !.required = soh_index + SepLength + body_length
                                              + ChecksumLength,
                                 !.index = soh_index + 1]),
                  "none", << >>, TRUE)

\* a body handler that forgets the bytes that follow the frame
ProcessBodyNoRequeue(o) ==
    LET o1 == PopIntoBuf(o)
        data == Slice(o1.buf, 0, o1.required)
    IN  IF Len(o1.buf) < o1.required THEN Resp(o1, "need", << >>, FALSE)
        ELSE Resp([o1 EXCEPT !.buf = << >>, !.index = 0, !.required = 0],
                  "data", data, TRUE)

ProcessBody(o) ==
    LET o1 == PopIntoBuf(o)
        data == Slice(o1.buf, 0, o1.required)
        checksum == Slice(data, Len(data) - ChecksumLength, Len(data) - SepLength)
        checksum_value == Slice(checksum, 3, Len(checksum))
        expected == CalcChecksum(data, RbSep, RbConvert)
        rest == IF Len(o1.buf) > o1.required
                THEN <<Slice(o1.buf, o1.required, Len(o1.buf))>> \o o1.queue
                ELSE o1.queue
    IN  IF Len(o1.buf) < o1.required THEN Resp(o1, "need", << >>, FALSE)
        ELSE IF ~EndsWith(data, <<RbSep>>) THEN Resp(o1, "error", << >>, FALSE)
        ELSE IF RbValidate /\ ~StartsWith(checksum, <<D1, D0, EQ>>)
             THEN Resp(o1, "error", << >>, FALSE)
        ELSE IF RbValidate /\ checksum_value # expected
             THEN Resp(o1, "error", << >>, FALSE)
        ELSE Resp([o1 EXCEPT !.queue = rest, !.buf = << >>, !.index = 0,
                             !.required = 0],
                  "data", data, TRUE)

\* self._transitions: the keys that are defined
RbTransitionKeys ==
    {<<"IDLE", "EMPTY">>, <<"IDLE", "HAS_DATA">>, <<"IDLE", "EOF">>,
     <<"EXPECT_BEGIN_STRING", "EMPTY">>, <<"EXPECT_BEGIN_STRING", "HAS_DATA">>,
     <<"EXPECT_BODY_LENGTH", "EMPTY">>, <<"EXPECT_BODY_LENGTH", "HAS_DATA">>,
     <<"EXPECT_BODY", "EMPTY">>, <<"EXPECT_BODY", "HAS_DATA">>,
     <<"END_OF_FILE", "EOF">>}

\* self._transitions[key][1]
RbNextState(key) ==
    CASE key = <<"IDLE", "EMPTY">> -> "IDLE"
      [] key = <<"IDLE", "HAS_DATA">> -> "EXPECT_BEGIN_STRING"
      [] key = <<"IDLE", "EOF">> -> "END_OF_FILE"
      [] key = <<"EXPECT_BEGIN_STRING", "EMPTY">> -> "EXPECT_BEGIN_STRING"
      [] key = <<"EXPECT_BEGIN_STRING", "HAS_DATA">> -> "EXPECT_BODY_LENGTH"
      [] key = <<"EXPECT_BODY_LENGTH", "EMPTY">> -> "EXPECT_BODY_LENGTH"
      [] key = <<"EXPECT_BODY_LENGTH", "HAS_DATA">> -> "EXPECT_BODY"
      [] key = <<"EXPECT_BODY", "EMPTY">> -> "EXPECT_BODY"
      [] key = <<"EXPECT_BODY", "HAS_DATA">> -> "IDLE"
      [] key = <<"END_OF_FILE", "EOF">> -> "CLOSED"

\* self._transitions[key][0]()
RbCall(key, o) ==
    CASE key[2] = "EMPTY" -> RequestData(o)
      [] key = <<"IDLE", "HAS_DATA">> -> ProceedToNextState(o)
      [] key[2] = "EOF" -> HandleEndOfFile(o)
      [] key = <<"EXPECT_BEGIN_STRING", "HAS_DATA">> -> ProcessBeginString(o)
      [] key = <<"EXPECT_BODY_LENGTH", "HAS_DATA">> -> ProcessBodyLength(o)
      [] key = <<"EXPECT_BODY", "HAS_DATA">> -> ProcessBody(o)

\* FixReadBuffer.next_event: the object after the call and the event returned
\* (kind "error" is a raised FixReadError)
RECURSIVE NextEvent(_)
NextEvent(o) ==
    IF ~IsExpecting(o.state) THEN Resp(o, "error", << >>, FALSE)
    ELSE LET key == <<o.state, InputState(o.queue)>>
         IN  IF key \notin RbTransitionKeys THEN Resp(o, "error", << >>, FALSE)
             ELSE LET r == RbCall(key, o)
                      o2 == IF r.complete
                            THEN [r.obj EXCEPT !.state = RbNextState(key)]
                            ELSE r.obj
                  IN  IF r.kind = "error" THEN Resp(r.obj, "error", << >>, FALSE)
                      ELSE IF r.kind # "none" THEN Resp(o2, r.kind, r.data, r.complete)
                      ELSE NextEvent(o2)

\* FixReadBuffer.receive
RbReceive(o, chunk) == [o EXCEPT !.queue = Append(o.queue, chunk)]

----------------------------------------------------------------------------
(* The peer's byte stream: concatenations of valid frames (8=F|9=n|...|    *)
(* 10=ccc|, the checksum taken with the separator converted to SOH).       *)

MaxFrames == 2

Frame(id) ==
    CASE id = 1 -> \* 8=F|9=5|35=0|10=062|
            <<56, 61, 70, 124, 57, 61, 53, 124, 51, 53, 61, 48, 124,
              49, 48, 61, 48, 54, 50, 124>>
      [] id = 2 -> \* 8=F|9=9|35=A|9=1|10=251|
            <<56, 61, 70, 124, 57, 61, 57, 124, 51, 53, 61, 65, 124,
              57, 61, 49, 124, 49, 48, 61, 50, 53, 49, 124>>
      [] id = 3 -> \* 8=F|9=10|35=D|10=7|10=084|
            <<56, 61, 70, 124, 57, 61, 49, 48, 124, 51, 53, 61, 68, 124,
              49, 48, 61, 55, 124, 49, 48, 61, 48, 56, 52, 124>>
      [] id = 4 -> \* 8=F|9=05|35=0|10=110|  (zero padded BodyLength)
            <<56, 61, 70, 124, 57, 61, 48, 53, 124, 51, 53, 61, 48, 124,
              49, 48, 61, 49, 49, 48, 124>>

FrameIds == {1, 2, 3, 4}

Streams == UNION {[1..n -> FrameIds] : n \in 1..MaxFrames}

RECURSIVE StreamBytes(_)
StreamBytes(stream) ==
    IF stream = << >> THEN << >>
    ELSE Frame(stream[1]) \o StreamBytes(Tail(stream))

StreamFrames(stream) == [i \in 1..Len(stream) |-> Frame(stream[i])]

\* the byte offsets at which a frame of the stream ends
FrameEnds(stream) ==
    {Len(StreamBytes(SubSeq(stream, 1, k))) : k \in 0..Len(stream)}

----------------------------------------------------------------------------
(* The driver of the read buffer: the loop of fix_read_async, the stream   *)
(* reader handing over the next 1..n bytes on each read and b'' at the end.*)

RbInit ==
    /\ rb = RbNew
    /\ rb_last = "start"
    /\ rb_stream \in Streams
    /\ rb_pos = 0
    /\ rb_emitted = << >>
    /\ rb_split = FALSE

\* fix_event = read_buffer.next_event(); a DATA_READY event is yielded
RbNextEvent ==
    /\ rb_last \in {"start", "fed", "data"}
    /\ LET r == NextEvent(rb)
       IN  /\ rb' = r.obj
           /\ rb_last' = r.kind
           /\ rb_emitted' = IF r.kind = "data" THEN Append(rb_emitted, r.data)
                            ELSE rb_emitted
    /\ UNCHANGED <<rb_stream, rb_pos, rb_split>>

\* NEEDS_MORE_DATA: buf = await stream_reader.read(blksiz); receive(buf)
RbFeed ==
    /\ rb_last = "need"
    /\ LET bytes == StreamBytes(rb_stream)
       IN  /\ rb_pos < Len(bytes)
           /\ \E n \in 1..(Len(bytes) - rb_pos) :
                 /\ rb' = RbReceive(rb, Slice(bytes, rb_pos, rb_pos + n))
                 /\ rb_pos' = rb_pos + n
                 /\ rb_split' = (rb_split \/ (rb_pos + n) \notin FrameEnds(rb_stream))
    /\ rb_last' = "fed"
    /\ UNCHANGED <<rb_stream, rb_emitted>>

\* NEEDS_MORE_DATA at the end of the stream: read() returns b''
RbFeedEof ==
    /\ rb_last = "need"
    /\ rb_pos = Len(StreamBytes(rb_stream))
    /\ rb' = RbReceive(rb, << >>)
    /\ rb_last' = "fed"
    /\ UNCHANGED <<rb_stream, rb_pos, rb_emitted, rb_split>>

\* NEEDS_MORE_DATA and the connection is gone before the peer's bytes are all
\* in: read() returns b'' early (the test feeds receive(b'') after its input)
RbFeedEofEarly ==
    /\ rb_last = "need"
    /\ rb_pos < Len(StreamBytes(rb_stream))
    /\ rb' = RbReceive(rb, << >>)
    /\ rb_last' = "fed"
    /\ UNCHANGED <<rb_stream, rb_pos, rb_emitted, rb_split>>

\* next_event() called once more after it has returned EndOfFile (the marker
\* is still at the head of the queue)
RbNextEventAtEof ==
    /\ rb_last = "eof"
    /\ rb.state = "END_OF_FILE"
    /\ LET r == NextEvent(rb)
       IN  /\ rb' = r.obj
           /\ rb_last' = r.kind
    /\ UNCHANGED <<rb_stream, rb_pos, rb_emitted, rb_split>>

----------------------------------------------------------------------------
(* Transition tables                                                       *)

AdminStates ==
    {"DISCONNECTED", "LOGON_REQUESTED", "LOGON_EXPECTED", "AUTHENTICATING",
     "AUTHENTICATED", "REJECT_LOGON", "LOGGED_OUT", "ACKNOWLEDGE_LOGOUT",
     "ACKNOWLEDGE_HEARTBEAT", "TEST_HEARTBEAT", "SEND_TEST_HEARTBEAT",
     "VALIDATE_TEST_HEARTBEAT", "TEST_REQUEST_REQUESTED", "SEND_SEQUENCE_RESET",
     "SEQUENCE_RESET_REQUESTED", "SEQUENCE_RESET_RECEIVED", "SET_INCOMING_SEQNUM"}

AdminEvents ==
    {"CONNECTED", "LOGON_SENT", "LOGON_RECEIVED", "LOGON_ACCEPTED",
     "LOGON_REJECTED", "LOGOUT_ACKNOWLEDGED", "REJECT_RECEIVED", "SEND_LOGOUT",
     "LOGOUT_RECEIVED", "HEARTBEAT_RECEIVED", "HEARTBEAT_ACKNOWLEDGED",
     "TEST_REQUEST_RECEIVED", "TEST_REQUEST_SENT", "RESEND_REQUEST_RECEIVED",
     "SEQUENCE_RESET_RECEIVED", "SEQUENCE_RESET_SENT", "INCOMING_SEQNUM_SET",
     "TEST_HEARTBEAT_REQUIRED", "TEST_HEARTBEAT_SENT", "TEST_HEARTBEAT_VALID",
     "TEST_HEARTBEAT_INVALID", "XML_MESSAGE_RECEIVED"}

INITIATOR_ADMIN_TRANSITIONS ==
    [DISCONNECTED |-> [CONNECTED |-> "LOGON_REQUESTED"],
     LOGON_REQUESTED |-> [LOGON_SENT |-> "LOGON_EXPECTED"],
     LOGON_EXPECTED |-> [LOGON_RECEIVED |-> "AUTHENTICATED",
                         REJECT_RECEIVED |-> "DISCONNECTED"],
     AUTHENTICATED |-> [HEARTBEAT_RECEIVED |-> "ACKNOWLEDGE_HEARTBEAT",
                        TEST_REQUEST_RECEIVED |-> "TEST_REQUEST_REQUESTED",
                        RESEND_REQUEST_RECEIVED |-> "SEQUENCE_RESET_REQUESTED",
                        SEQUENCE_RESET_RECEIVED |-> "SET_INCOMING_SEQNUM",
                        LOGOUT_RECEIVED |-> "ACKNOWLEDGE_LOGOUT",
                        TEST_HEARTBEAT_REQUIRED |-> "SEND_TEST_HEARTBEAT"],
     ACKNOWLEDGE_HEARTBEAT |-> [HEARTBEAT_ACKNOWLEDGED |-> "AUTHENTICATED"],
     TEST_REQUEST_REQUESTED |-> [TEST_REQUEST_SENT |-> "AUTHENTICATED"],
     SEQUENCE_RESET_REQUESTED |-> [SEQUENCE_RESET_SENT |-> "AUTHENTICATED"],
     SET_INCOMING_SEQNUM |-> [INCOMING_SEQNUM_SET |-> "AUTHENTICATED"],
     ACKNOWLEDGE_LOGOUT |-> [LOGOUT_ACKNOWLEDGED |-> "DISCONNECTED"],
     SEND_TEST_HEARTBEAT |-> [TEST_HEARTBEAT_SENT |-> "VALIDATE_TEST_HEARTBEAT"],
     VALIDATE_TEST_HEARTBEAT |-> [TEST_HEARTBEAT_VALID |-> "AUTHENTICATED",
                                 TEST_HEARTBEAT_INVALID |-> "REJECT_LOGON"]]

ACCEPTOR_ADMIN_TRANSITIONS ==
    [DISCONNECTED |-> [CONNECTED |-> "LOGON_EXPECTED"],
     LOGON_EXPECTED |-> [LOGON_RECEIVED |-> "AUTHENTICATING"],
     AUTHENTICATING |-> [LOGON_ACCEPTED |-> "AUTHENTICATED",
                         LOGON_REJECTED |-> "REJECT_LOGON"],
     REJECT_LOGON |-> [SEND_LOGOUT |-> "DISCONNECTED"],
     AUTHENTICATED |-> [HEARTBEAT_RECEIVED |-> "AUTHENTICATED",
                        TEST_REQUEST_RECEIVED |-> "TEST_REQUEST_REQUESTED",
                        RESEND_REQUEST_RECEIVED |-> "SEND_SEQUENCE_RESET",
                        SEQUENCE_RESET_RECEIVED |-> "SET_INCOMING_SEQNUM",
                        LOGOUT_RECEIVED |-> "DISCONNECTED",
                        TEST_HEARTBEAT_REQUIRED |-> "SEND_TEST_HEARTBEAT"],
     TEST_REQUEST_REQUESTED |-> [TEST_REQUEST_SENT |-> "AUTHENTICATED"],
     SEND_SEQUENCE_RESET |-> [SEQUENCE_RESET_SENT |-> "AUTHENTICATED"],
     SET_INCOMING_SEQNUM |-> [INCOMING_SEQNUM_SET |-> "AUTHENTICATED"],
     SEND_TEST_HEARTBEAT |-> [TEST_HEARTBEAT_SENT |-> "VALIDATE_TEST_HEARTBEAT"],
     VALIDATE_TEST_HEARTBEAT |-> [TEST_HEARTBEAT_VALID |-> "AUTHENTICATED",
                                 TEST_HEARTBEAT_INVALID |-> "REJECT_LOGON"]]

TransportStates == {"DISCONNECTED", "CONNECTED", "FIX", "TIMEOUT"}

TransportEvents ==
    {"CONNECTION_RECEIVED", "FIX_RECEIVED", "FIX_HANDLED", "TIMEOUT_RECEIVED",
     "TIMEOUT_HANDLED", "DISCONNECT_RECEIVED"}

\* TransportStateTransitions.TRANSITIONS
TRANSITIONS ==
    [DISCONNECTED |-> [CONNECTION_RECEIVED |-> "CONNECTED"],
     CONNECTED |-> [FIX_RECEIVED |-> "FIX",
                    TIMEOUT_RECEIVED |-> "TIMEOUT",
                    DISCONNECT_RECEIVED |-> "DISCONNECTED"],
     FIX |-> [FIX_HANDLED |-> "CONNECTED"],
     TIMEOUT |-> [TIMEOUT_HANDLED |-> "CONNECTED"]]

\* python: mapping[state][event] does not raise KeyError
HasKey(mapping, state, event) ==
    state \in DOMAIN mapping /\ event \in DOMAIN mapping[state]

\* a transition() that swallows the KeyError and stays where it is
TransitionSilent(transitions, state, event) ==
    IF HasKey(transitions, state, event)
    THEN [state |-> transitions[state][event], raised |-> FALSE]
    ELSE [state |-> state, raised |-> FALSE]

\* AdminStateTransition.transition: the state afterwards and whether
\* InvalidStateTransitionError was raised
AdminTransition(transitions, state, event) ==
    IF HasKey(transitions, state, event)
    THEN [state |-> transitions[state][event], raised |-> FALSE]
    ELSE [state |-> state, raised |-> TRUE]

\* TransportStateTransitions.transition
TransportTransition(state, event) ==
    IF HasKey(TRANSITIONS, state, event)
    THEN [state |-> TRANSITIONS[state][event], raised |-> FALSE]
    ELSE [state |-> state, raised |-> TRUE]

FsmKinds == {"initiator", "acceptor", "transport"}

FsmTable(kind) ==
    CASE kind = "initiator" -> INITIATOR_ADMIN_TRANSITIONS
      [] kind = "acceptor" -> ACCEPTOR_ADMIN_TRANSITIONS
      [] kind = "transport" -> TRANSITIONS

\* AdminStateTransition(transitions) / TransportStateTransitions(): the state
\* after construction
FsmInit ==
    fsm \in {[kind |-> k, state |-> "DISCONNECTED", from |-> "DISCONNECTED",
              event |-> "none", raised |-> FALSE] : k \in FsmKinds}

\* state_machine.transition(event) on an admin table
FsmAdminTransition ==
    /\ fsm.kind \in {"initiator", "acceptor"}
    /\ \E event \in AdminEvents :
          LET t == AdminTransition(FsmTable(fsm.kind), fsm.state, event)
          IN  fsm' = [fsm EXCEPT !.state = t.state, !.from = fsm.state,
                                 !.event = event, !.raised = t.raised]

\* state_machine.transition(event) on the transport table
FsmTransportTransition ==
    /\ fsm.kind = "transport"
    /\ \E event \in TransportEvents :
          LET t == TransportTransition(fsm.state, event)
          IN  fsm' = [fsm EXCEPT !.state = t.state, !.from = fsm.state,
                                 !.event = event, !.raised = t.raised]

----------------------------------------------------------------------------
(* Admin state machine with handlers: AdminStateProcessor.process and the  *)
(* handlers of InitiatorAdminStateMachine.                                 *)

MaxSeqNum == 3

\* the TestReqID values a peer or uuid.uuid4() can produce
Tokens == {"t1", "t2"}

HeartbeatTimeouts == {1, 30}

\* a FIX body: the fields it has and their values
NoBody ==
    [has |-> {}, EncryptMethod |-> "", HeartBtInt |-> 0, TestReqID |-> "",
     NewSeqNo |-> 0, GapFillFlag |-> FALSE]

NoMsg == [event |-> "none", fix |-> NoBody]

AdminMessage(event, fix) == [event |-> event, fix |-> fix]

\* the bodies a caller of process() passes
FixBodies ==
    {NoBody}
    \cup {[NoBody EXCEPT !.has = {"TestReqID"}, !.TestReqID = t] : t \in Tokens}
    \cup {[NoBody EXCEPT !.has = {"NewSeqNo"}, !.NewSeqNo = MaxSeqNum]}

\* the machine together with the engine its handlers use: the admin state, the
\* transport state, the session's seqnums, whether self._send is set, and what
\* the current call has assigned, sent, run and raised
AdmNew(prev) ==
    [state |-> "DISCONNECTED", transport_state |-> "DISCONNECTED",
     outgoing_seqnum |-> prev, incoming_seqnum |-> 0,
     test_heartbeat_message |-> "", connected |-> TRUE,
     assigned |-> << >>, sent |-> << >>, ran |-> << >>, raised |-> "none"]

\* a seqnum taken without being stored
NextOutgoingSeqnumNotStored(a) ==
    [a EXCEPT !.assigned = Append(@, a.outgoing_seqnum + 1)]

\* Acceptor._next_outgoing_seqnum: read the stored seqnum, add one, store it
NextOutgoingSeqnum(a) ==
    [a EXCEPT !.outgoing_seqnum = @ + 1,
              !.assigned = Append(@, a.outgoing_seqnum + 1)]

\* Acceptor.send_message and _send_transport_message: take the next seqnum, build
\* the message, and hand it to send(); ValueError when self._send is None
EngineSendMessage(a, msg_type, body) ==
    LET SendTransportMessage(a1) ==
            IF ~a1.connected THEN [a1 EXCEPT !.raised = "ValueError"]
            ELSE [a1 EXCEPT !.sent =
                      Append(@, [msg_type |-> msg_type, body |-> body,
                                 MsgSeqNum |-> a1.assigned[Len(a1.assigned)]])]
    IN  SendTransportMessage(NextOutgoingSeqnum(a))

\* what a handler gives back: the machine afterwards and the follow-up message
HandlerResult(a, next) == [a |-> a, next |-> next]

Raise(a, error) == HandlerResult([a EXCEPT !.raised = error], NoMsg)

\* a sequence reset to the seqnum after the stored one
SendSequenceResetToNext(a) ==
    HandlerResult(
        EngineSendMessage(a, "SEQUENCE_RESET",
            [NoBody EXCEPT !.has = {"GapFillFlag", "NewSeqNo"},
                           !.GapFillFlag = FALSE,
                           !.NewSeqNo = a.outgoing_seqnum + 1]),
        AdminMessage("SEQUENCE_RESET_SENT", NoBody))

\* _send_sequence_reset, the same in both machines: read the stored outgoing
\* seqnum, add two, send SEQUENCE_RESET with it, return SEQUENCE_RESET_SENT
SendSequenceReset(a) ==
    HandlerResult(
        EngineSendMessage(a, "SEQUENCE_RESET",
            [NoBody EXCEPT !.has = {"GapFillFlag", "NewSeqNo"},
                           !.GapFillFlag = FALSE,
                           !.NewSeqNo = a.outgoing_seqnum + 2]),
        AdminMessage("SEQUENCE_RESET_SENT", NoBody))

\* InitiatorAdminStateMachine.__init__: the handler bound to (state, event)
INITIATOR_HANDLERS ==
    [DISCONNECTED |-> [CONNECTED |-> "_send_logon"],
     LOGON_EXPECTED |-> [LOGON_RECEIVED |-> "_logon_received"],
     AUTHENTICATED |-> [HEARTBEAT_RECEIVED |-> "_acknowledge_heartbeat",
                        TEST_REQUEST_RECEIVED |-> "_send_test_request",
                        RESEND_REQUEST_RECEIVED |-> "_send_sequence_reset",
                        SEQUENCE_RESET_RECEIVED |-> "_reset_incoming_seqnum",
                        LOGOUT_RECEIVED |-> "_acknowledge_logout",
                        TEST_HEARTBEAT_REQUIRED |-> "_send_test_heartbeat"],
     SEND_TEST_HEARTBEAT |-> [TEST_REQUEST_SENT |-> "_validate_test_heartbeat"]]

\* a logon whose HeartBtInt is not the configured timeout
InitiatorSendLogonFixedInterval(a, heartbeat_timeout) ==
    HandlerResult(
        EngineSendMessage(a, "LOGON",
            [NoBody EXCEPT !.has = {"EncryptMethod", "HeartBtInt"},
                           !.EncryptMethod = "NONE", !.HeartBtInt = 60]),
        AdminMessage("LOGON_SENT", NoBody))

\* InitiatorAdminStateMachine._send_logon
InitiatorSendLogon(a, heartbeat_timeout) ==
    HandlerResult(
        EngineSendMessage(a, "LOGON",
            [NoBody EXCEPT !.has = {"EncryptMethod", "HeartBtInt"},
                           !.EncryptMethod = "NONE",
                           !.HeartBtInt = heartbeat_timeout]),
        AdminMessage("LOGON_SENT", NoBody))

\* InitiatorAdminStateMachine: the handler `name` run on `msg`.  env.app_raises
\* says whether the application callback raises, env.token is the uuid drawn.
InitiatorHandler(name, a, msg, env, heartbeat_timeout) ==
    CASE name = "_send_logon" -> InitiatorSendLogon(a, heartbeat_timeout)
      [] name = "_logon_received" ->
            IF env.app_raises THEN Raise(a, "ApplicationError")
            ELSE HandlerResult(a, NoMsg)
      [] name = "_acknowledge_heartbeat" ->
            IF env.app_raises THEN Raise(a, "ApplicationError")
            ELSE HandlerResult(a, AdminMessage("HEARTBEAT_ACKNOWLEDGED", NoBody))
      [] name = "_send_test_request" ->
            IF "TestReqID" \notin msg.fix.has THEN Raise(a, "AssertionError")
            ELSE HandlerResult(
                     EngineSendMessage(a, "TEST_REQUEST",
                         [NoBody EXCEPT !.has = {"TestReqID"},
                                        !.TestReqID = msg.fix.TestReqID]),
                     AdminMessage("TEST_REQUEST_SENT", NoBody))
      [] name = "_send_sequence_reset" ->
            SendSequenceReset(a)
      [] name = "_reset_incoming_seqnum" ->
            IF "NewSeqNo" \notin msg.fix.has THEN Raise(a, "AssertionError")
            ELSE HandlerResult([a EXCEPT !.incoming_seqnum = msg.fix.NewSeqNo],
                               AdminMessage("SEQUENCE_RESET_SENT", NoBody))
      [] name = "_acknowledge_logout" ->
            IF env.app_raises THEN Raise(a, "ApplicationError")
            ELSE HandlerResult(a, AdminMessage("LOGOUT_ACKNOWLEDGED", NoBody))
      [] name = "_send_test_heartbeat" ->
            HandlerResult(
                EngineSendMessage([a EXCEPT !.test_heartbeat_message = env.token],
                    "TEST_REQUEST",
                    [NoBody EXCEPT !.has = {"TestReqID"}, !.TestReqID = env.token]),
                AdminMessage("TEST_HEARTBEAT_SENT", NoBody))
      [] name = "_validate_test_heartbeat" ->
            IF "TestReqID" \notin msg.fix.has THEN Raise(a, "AssertionError")
            ELSE IF msg.fix.TestReqID = a.test_heartbeat_message
                 THEN HandlerResult(a, AdminMessage("TEST_HEARTBEAT_VALID", NoBody))
                 ELSE HandlerResult(a, AdminMessage("TEST_HEARTBEAT_INVALID", NoBody))

\* Acceptor.__init__: the admin handler bound to (state, event)
ACCEPTOR_HANDLERS ==
    [DISCONNECTED |-> [CONNECTED |-> "_handle_connected"],
     LOGON_EXPECTED |-> [LOGON_RECEIVED |-> "_validate_logon"],
     AUTHENTICATING |-> [LOGON_ACCEPTED |-> "_send_logon",
                         LOGON_REJECTED |-> "_send_logout"],
     AUTHENTICATED |-> [HEARTBEAT_RECEIVED |-> "_receive_heartbeat",
                        TEST_REQUEST_RECEIVED |-> "_receive_test_request",
                        RESEND_REQUEST_RECEIVED |-> "_send_sequence_reset",
                        SEQUENCE_RESET_RECEIVED |-> "_handle_sequence_reset",
                        LOGOUT_RECEIVED |-> "_receive_logout",
                        TEST_HEARTBEAT_REQUIRED |-> "_send_test_heartbeat"],
     SEND_TEST_HEARTBEAT |-> [TEST_REQUEST_SENT |-> "_validate_test_heartbeat"],
     REJECT_LOGON |-> [SEND_LOGOUT |-> "_send_logout"]]

\* Acceptor: the admin handler `name` run on `msg`.  The AdminMessage the
\* acceptor imports keeps its mapping in .body, so a handler that reads
\* admin_message.fix raises AttributeError where it reads it.  No logon time
\* range is configured.
AcceptorHandler(name, a, msg, env, heartbeat_timeout) ==
    CASE name = "_handle_connected" -> HandlerResult(a, NoMsg)
      [] name = "_validate_logon" -> Raise(a, "AttributeError")
      [] name = "_send_logon" ->
            HandlerResult(
                EngineSendMessage(a, "LOGON",
                    [NoBody EXCEPT !.has = {"EncryptMethod", "HeartBtInt"},
                                   !.EncryptMethod = "NONE",
                                   !.HeartBtInt = heartbeat_timeout]),
                NoMsg)
      [] name = "_send_logout" ->
            LET ReadFix(a1) == IF a1.raised # "none" THEN HandlerResult(a1, NoMsg)
                               ELSE Raise(a1, "AttributeError")
            IN  ReadFix(EngineSendMessage(a, "LOGOUT", NoBody))
      [] name = "_receive_heartbeat" -> Raise(a, "AttributeError")
      [] name = "_receive_test_request" -> Raise(a, "AttributeError")
      [] name = "_send_sequence_reset" ->
            SendSequenceReset(a)
      [] name = "_handle_sequence_reset" -> Raise(a, "AttributeError")
      [] name = "_receive_logout" -> Raise(a, "AttributeError")
      [] name = "_send_test_heartbeat" ->
            HandlerResult(
                EngineSendMessage([a EXCEPT !.test_heartbeat_message = env.token],
                    "TEST_REQUEST",
                    [NoBody EXCEPT !.has = {"TestReqID"}, !.TestReqID = env.token]),
                AdminMessage("TEST_HEARTBEAT_SENT", NoBody))
      [] name = "_validate_test_heartbeat" -> Raise(a, "AttributeError")

\* a _validate_logon that catches LoginError only
ValidateLogonLoginErrorOnly(a, env) ==
    IF env.on_logon = "ok"
    THEN HandlerResult(a, AdminMessage("LOGON_ACCEPTED", NoBody))
    ELSE IF env.on_logon = "LoginError"
         THEN HandlerResult(a, AdminMessage("LOGON_REJECTED", NoBody))
         ELSE Raise(a, env.on_logon)

\* AcceptorAdminStateMachine._validate_logon: LOGON_ACCEPTED when on_logon
\* returns, LOGON_REJECTED when it raises LoginError or anything else
ValidateLogon(a, env) ==
    IF env.on_logon = "ok"
    THEN HandlerResult(a, AdminMessage("LOGON_ACCEPTED", NoBody))
    ELSE HandlerResult(a, AdminMessage("LOGON_REJECTED", NoBody))

\* a _send_logout that returns SEND_LOGOUT as its follow-up event
AcceptorSendLogoutAgain(a, env) ==
    LET OnLogout(a1) ==
            IF a1.raised = "none" /\ env.raising = "on_logout"
            THEN Raise(a1, "ApplicationError")
            ELSE HandlerResult(a1, AdminMessage("SEND_LOGOUT", NoBody))
    IN  OnLogout(EngineSendMessage(a, "LOGOUT", NoBody))

\* AcceptorAdminStateMachine._send_logout: send LOGOUT, await on_logout, return
\* None
AcceptorSendLogout(a, env) ==
    LET OnLogout(a1) ==
            IF a1.raised = "none" /\ env.raising = "on_logout"
            THEN Raise(a1, "ApplicationError")
            ELSE HandlerResult(a1, NoMsg)
    IN  OnLogout(EngineSendMessage(a, "LOGOUT", NoBody))

\* AcceptorAdminStateMachine: the handler `name` run on `msg`.  env.on_logon is
\* how the application's on_logon ends ("ok", "LoginError" or "Exception"),
\* env.raising names the other application callback that raises, or "none".
\* No logon time range is configured.
AcceptorMachineHandler(name, a, msg, env, heartbeat_timeout) ==
    CASE name = "_handle_connected" -> HandlerResult(a, NoMsg)
      [] name = "_validate_logon" -> ValidateLogon(a, env)
      [] name = "_send_logon" ->
            HandlerResult(
                EngineSendMessage(a, "LOGON",
                    [NoBody EXCEPT !.has = {"EncryptMethod", "HeartBtInt"},
                                   !.EncryptMethod = "NONE",
                                   !.HeartBtInt = heartbeat_timeout]),
                NoMsg)
      [] name = "_send_logout" -> AcceptorSendLogout(a, env)
      [] name = "_receive_heartbeat" ->
            IF env.raising = "on_heartbeat" THEN Raise(a, "ApplicationError")
            ELSE HandlerResult(a, NoMsg)
      [] name = "_receive_test_request" ->
            IF "TestReqID" \notin msg.fix.has THEN Raise(a, "AssertionError")
            ELSE HandlerResult(
                     EngineSendMessage(a, "TEST_REQUEST",
                         [NoBody EXCEPT !.has = {"TestReqID"},
                                        !.TestReqID = msg.fix.TestReqID]),
                     AdminMessage("TEST_REQUEST_SENT", NoBody))
      [] name = "_send_sequence_reset" ->
            SendSequenceReset(a)
      [] name = "_handle_sequence_reset" ->
            IF "NewSeqNo" \notin msg.fix.has THEN Raise(a, "AssertionError")
            ELSE HandlerResult([a EXCEPT !.incoming_seqnum = msg.fix.NewSeqNo],
                               AdminMessage("INCOMING_SEQNUM_SET", NoBody))
      [] name = "_receive_logout" ->
            IF env.raising = "on_logout" THEN Raise(a, "ApplicationError")
            ELSE HandlerResult(a, NoMsg)
      [] name = "_send_test_heartbeat" ->
            HandlerResult(
                EngineSendMessage([a EXCEPT !.test_heartbeat_message = env.token],
                    "TEST_REQUEST",
                    [NoBody EXCEPT !.has = {"TestReqID"}, !.TestReqID = env.token]),
                AdminMessage("TEST_HEARTBEAT_SENT", NoBody))
      [] name = "_validate_test_heartbeat" ->
            IF "TestReqID" \notin msg.fix.has THEN Raise(a, "AssertionError")
            ELSE IF msg.fix.TestReqID = a.test_heartbeat_message
                 THEN HandlerResult(a, AdminMessage("TEST_HEARTBEAT_VALID", NoBody))
                 ELSE HandlerResult(a, AdminMessage("TEST_HEARTBEAT_INVALID", NoBody))

AdminTable(role) ==
    CASE role = "initiator" -> INITIATOR_ADMIN_TRANSITIONS
      [] role = "acceptor" -> ACCEPTOR_ADMIN_TRANSITIONS
      [] role = "acceptor_machine" -> ACCEPTOR_ADMIN_TRANSITIONS

AdminHandlers(role) ==
    CASE role = "initiator" -> INITIATOR_HANDLERS
      [] role = "acceptor" -> ACCEPTOR_HANDLERS
      [] role = "acceptor_machine" -> ACCEPTOR_HANDLERS

AdminHandler(role, name, a, msg, env, heartbeat_timeout) ==
    CASE role = "initiator" -> InitiatorHandler(name, a, msg, env, heartbeat_timeout)
      [] role = "acceptor" -> AcceptorHandler(name, a, msg, env, heartbeat_timeout)
      [] role = "acceptor_machine" ->
            AcceptorMachineHandler(name, a, msg, env, heartbeat_timeout)

\* self._handlers.get(self.state, {}).get(message.event)
HandlerFor(handlers, state, event) ==
    IF HasKey(handlers, state, event) THEN handlers[state][event] ELSE "none"

\* AdminStateProcessor.process: look the handler up, make the transition, await
\* the handler, go on with the message it returns
RECURSIVE AdminProcess(_, _, _, _, _)
AdminProcess(role, a, msg, env, heartbeat_timeout) ==
    IF msg.event = "none" THEN a
    ELSE LET handler == HandlerFor(AdminHandlers(role), a.state, msg.event)
             t == AdminTransition(AdminTable(role), a.state, msg.event)
             a1 == [a EXCEPT !.state = t.state]
         IN  IF t.raised THEN [a EXCEPT !.raised = "InvalidStateTransitionError"]
             ELSE IF handler = "none" THEN a1
             ELSE LET GoOn(r) ==
                          IF r.a.raised # "none" THEN r.a
                          ELSE AdminProcess(role, r.a, r.next, env, heartbeat_timeout)
                  IN  GoOn(AdminHandler(role, handler,
                                        [a1 EXCEPT !.ran = Append(@, handler)],
                                        msg, env, heartbeat_timeout))

----------------------------------------------------------------------------
(* The acceptor as a transport handler: Acceptor.__call__ and the handlers *)
(* bound to its transport state machine.                                   *)

\* a decoded frame: its message type, its MsgSeqNum and its body
NoFrame == [msg_type |-> "none", body |-> NoBody, MsgSeqNum |-> 0]

TransportMessage(event, buffer) == [event |-> event, buffer |-> buffer]

NoTransportMessage == TransportMessage("none", NoFrame)

\* the message types whose msgcat is admin
AdminMsgTypes ==
    {"LOGON", "LOGOUT", "HEARTBEAT", "TEST_REQUEST", "RESEND_REQUEST",
     "SEQUENCE_RESET", "REJECT"}

\* AdminEvent.from_msg_type of the acceptor; "none" is the ValueError
FromMsgType(msg_type) ==
    CASE msg_type = "LOGON" -> "LOGON_RECEIVED"
      [] msg_type = "LOGOUT" -> "LOGOUT_RECEIVED"
      [] msg_type = "HEARTBEAT" -> "HEARTBEAT_RECEIVED"
      [] msg_type = "TEST_REQUEST" -> "TEST_REQUEST_RECEIVED"
      [] msg_type = "RESEND_REQUEST" -> "RESEND_REQUEST_RECEIVED"
      [] msg_type = "SEQUENCE_RESET" -> "SEQUENCE_RESET_RECEIVED"
      [] OTHER -> "none"

\* Acceptor.__init__: the transport handler bound to (state, event)
ACCEPTOR_TRANSPORT_HANDLERS ==
    [DISCONNECTED |-> [CONNECTION_RECEIVED |-> "_handle_transport_connected"],
     CONNECTED |-> [FIX_RECEIVED |-> "_handle_fix",
                    TIMEOUT_RECEIVED |-> "_handle_timeout",
                    DISCONNECT_RECEIVED |-> "_handle_disconnect"]]

\* Acceptor._handle_admin_message: on_admin_message, then the admin machine
HandleAdminMessage(a, message, env, heartbeat_timeout) ==
    IF env.app_raises THEN [a EXCEPT !.raised = "ApplicationError"]
    ELSE IF FromMsgType(message.msg_type) = "none"
         THEN [a EXCEPT !.raised = "ValueError"]
         ELSE AdminProcess("acceptor", a,
                           AdminMessage(FromMsgType(message.msg_type), message.body),
                           env, heartbeat_timeout)

\* Acceptor._handle_fix
HandleFix(a, msg, env, heartbeat_timeout) ==
    LET message == msg.buffer
        SetIncomingSeqnum(a1) ==
            IF a1.raised # "none" THEN [a |-> a1, next |-> NoTransportMessage]
            ELSE [a |-> [a1 EXCEPT !.incoming_seqnum = message.MsgSeqNum],
                  next |-> TransportMessage("FIX_HANDLED", NoFrame)]
    IN  SetIncomingSeqnum(
            IF message.msg_type \in AdminMsgTypes
            THEN HandleAdminMessage(a, message, env, heartbeat_timeout)
            ELSE IF env.app_raises THEN [a EXCEPT !.raised = "ApplicationError"]
                 ELSE a)

\* Acceptor._handle_timeout; env.overdue says whether the peer has been silent
\* for longer than heartbeat_timeout + heartbeat_threshold
HandleTimeout(a, env, heartbeat_timeout) ==
    IF a.state # "AUTHENTICATED"
    THEN [a |-> [a EXCEPT !.raised = "RuntimeError"], next |-> NoTransportMessage]
    ELSE LET Handled(a1) ==
                 IF a1.raised # "none" THEN [a |-> a1, next |-> NoTransportMessage]
                 ELSE [a |-> a1, next |-> TransportMessage("TIMEOUT_HANDLED", NoFrame)]
         IN  Handled(IF env.overdue
                     THEN AdminProcess("acceptor", a,
                                       AdminMessage("TEST_HEARTBEAT_REQUIRED", NoBody),
                                       env, heartbeat_timeout)
                     ELSE a)

\* the transport handler `name` run on `msg`
AcceptorTransportHandler(name, a, msg, env, heartbeat_timeout) ==
    CASE name = "_handle_transport_connected" ->
            [a |-> AdminProcess("acceptor", a, AdminMessage("CONNECTED", NoBody),
                                env, heartbeat_timeout),
             next |-> NoTransportMessage]
      [] name = "_handle_fix" -> HandleFix(a, msg, env, heartbeat_timeout)
      [] name = "_handle_timeout" -> HandleTimeout(a, env, heartbeat_timeout)
      [] name = "_handle_disconnect" -> [a |-> a, next |-> NoTransportMessage]

\* TransportStateMachineAsync.process
RECURSIVE TransportProcess(_, _, _, _)
TransportProcess(a, msg, env, heartbeat_timeout) ==
    IF msg.event = "none" THEN a
    ELSE LET handler == HandlerFor(ACCEPTOR_TRANSPORT_HANDLERS,
                                   a.transport_state, msg.event)
             t == TransportTransition(a.transport_state, msg.event)
             a1 == [a EXCEPT !.transport_state = t.state]
         IN  IF t.raised THEN [a EXCEPT !.raised = "InvalidStateTransitionError"]
             ELSE IF handler = "none" THEN a1
             ELSE LET GoOn(r) ==
                          IF r.a.raised # "none" THEN r.a
                          ELSE TransportProcess(r.a, r.next, env, heartbeat_timeout)
                  IN  GoOn(AcceptorTransportHandler(handler, a1, msg, env,
                                                    heartbeat_timeout))

\* Acceptor._send_heartbeat_if_required; env.heartbeat_due says whether
\* heartbeat_timeout seconds have passed since the last send
SendHeartbeatIfRequired(a, env) ==
    IF a.transport_state # "CONNECTED" THEN a
    ELSE IF env.heartbeat_due /\ a.state = "AUTHENTICATED"
         THEN EngineSendMessage(a, "HEARTBEAT", NoBody)
         ELSE a

\* one turn of the loop of Acceptor.__call__ on the transport message it got.
\* No logout time is set, so _send_logout_if_login_expired returns at once.
AcceptorTurn(a, msg, env, heartbeat_timeout) ==
    LET Process(a1) == IF a1.raised # "none" THEN a1
                       ELSE TransportProcess(a1, msg, env, heartbeat_timeout)
    IN  Process(SendHeartbeatIfRequired(a, env))

AdmRoles == {"initiator"}

NoCall ==
    [from |-> "none", event |-> "none", fix |-> NoBody, sent |-> << >>,
     ran |-> << >>, raised |-> "none", app_raises |-> FALSE]

\* a machine on a fresh session
AdmInit ==
    /\ adm_role \in AdmRoles
    /\ adm_heartbeat_timeout \in HeartbeatTimeouts
    /\ adm = AdmNew(0)
    /\ adm_call = NoCall

\* state_machine.process(AdminMessage(event, fix))
AdmProcess ==
    /\ adm.outgoing_seqnum < MaxSeqNum
    /\ \E event \in AdminEvents, fix \in FixBodies, app_raises \in BOOLEAN :
       \E token \in IF event = "TEST_HEARTBEAT_REQUIRED" THEN Tokens ELSE {"t1"} :
          LET env == [app_raises |-> app_raises, token |-> token]
              a0 == [adm EXCEPT !.assigned = << >>, !.sent = << >>, !.ran = << >>,
                                !.raised = "none"]
              a1 == AdminProcess(adm_role, a0, AdminMessage(event, fix), env,
                                 adm_heartbeat_timeout)
          IN  /\ adm' = a1
              /\ adm_call' = [from |-> adm.state, event |-> event, fix |-> fix,
                              sent |-> a1.sent, ran |-> a1.ran,
                              raised |-> a1.raised, app_raises |-> app_raises]
    /\ UNCHANGED <<adm_role, adm_heartbeat_timeout>>

----------------------------------------------------------------------------
(* fix_stream_processor serving one connection, its handler an Acceptor.   *)
(* sp holds the processor's locals, acc the handler object, hist what has  *)
(* happened so far.                                                        *)

MaxPeerFrames == 2

MaxSends == 2

AcceptorHeartbeatTimeout == 30

\* the message types the peer sends
PeerMsgTypes == {"LOGON", "NEW_ORDER_SINGLE"}

\* an asyncio task: "pending", finished with a result, or "cancelled"
Task(status, result) == [status |-> status, result |-> result]

SpNew ==
    [pc |-> "init", state |-> "OK", raised |-> "none",
     read_queue |-> << >>, write_queue |-> << >>,
     handler_task |-> "none", cancellation_task |-> "none",
     read_task |-> Task("none", NoFrame),
     write_task |-> Task("none", NoTransportMessage),
     writer |-> [closed |-> FALSE, written |-> << >>, written_late |-> FALSE],
     batch |-> << >>, draining |-> FALSE]

HistNew(prev) ==
    [prev |-> prev, assigned |-> << >>, enqueued |-> << >>, yielded |-> << >>,
     delivered |-> << >>, disconnects |-> 0, enqueued_at_cancel |-> 0,
     disconnect_sent |-> FALSE, read_error |-> "none"]

\* a receive() that gives the newest message
ReceiveNewest(read_queue) ==
    [message |-> read_queue[Len(read_queue)],
     rest |-> SubSeq(read_queue, 1, Len(read_queue) - 1)]

\* receive(): read_queue.get() gives the oldest message
Receive(read_queue) == [message |-> Head(read_queue), rest |-> Tail(read_queue)]

\* a get() that gives the newest message
WriteQueueGetNewest(write_queue) ==
    [message |-> write_queue[Len(write_queue)],
     rest |-> SubSeq(write_queue, 1, Len(write_queue) - 1)]

\* write_queue.get() gives the oldest message
WriteQueueGet(write_queue) ==
    [message |-> Head(write_queue), rest |-> Tail(write_queue)]

\* writer.write(message.buffer); in_loop says whether the service loop makes
\* the write, and written_late remembers a write made outside it or after close()
WriterWrite(writer, buffer, in_loop) ==
    [writer EXCEPT !.written = Append(@, buffer.MsgSeqNum),
                   !.written_late = @ \/ writer.closed \/ ~in_loop]

\* a disconnect that closes the socket and goes on serving the write queue
HandleWriteKeepsServing(s) ==
    LET message == s.write_task.result
    IN  IF message.event = "FIX_RECEIVED"
        THEN [s EXCEPT !.writer = WriterWrite(@, message.buffer, s.pc = "wait"),
                       !.write_task = Task("draining", NoTransportMessage),
                       !.draining = TRUE]
        ELSE [s EXCEPT !.writer.closed = TRUE,
                       !.write_task = Task("pending", NoTransportMessage)]

\* the write_task branch of the service loop
HandleWrite(s) ==
    LET message == s.write_task.result
    IN  IF message.event = "FIX_RECEIVED"
        THEN [s EXCEPT !.writer = WriterWrite(@, message.buffer, s.pc = "wait"),
                       !.write_task = Task("draining", NoTransportMessage),
                       !.draining = TRUE]
        ELSE IF message.event = "DISCONNECT_RECEIVED"
        THEN [s EXCEPT !.writer.closed = TRUE, !.state = "HANDLER_CLOSED",
                       !.write_task = Task("finished", message)]
        ELSE [s EXCEPT !.raised = "RuntimeError"]

\* the read_task branch of the service loop
HandleRead(s) ==
    IF s.read_task.status = "data"
    THEN [s EXCEPT !.read_queue =
                       Append(@, TransportMessage("FIX_RECEIVED", s.read_task.result)),
                   !.read_task = Task("pending", NoFrame)]
    ELSE IF s.read_task.status = "error"
    THEN [s EXCEPT !.raised = "FixReadError"]
    ELSE [s EXCEPT !.state = "EOF"]

\* the body of `for task in completed`
HandleCompleted(s, task) ==
    CASE task = "handler_task" -> [s EXCEPT !.state = "HANDLER_COMPLETED"]
      [] task = "cancellation_task" -> [s EXCEPT !.state = "CANCELLED"]
      [] task = "write_task" -> HandleWrite(s)
      [] task = "read_task" -> HandleRead(s)

\* `for task in completed`, up to the await of writer.drain() or to the
\* exception a branch raises
RECURSIVE HandleBatch(_, _)
HandleBatch(s, order) ==
    IF order = << >> THEN [s EXCEPT !.batch = << >>]
    ELSE LET s1 == HandleCompleted(s, Head(order))
         IN  IF s1.raised # "none" THEN [s1 EXCEPT !.batch = << >>]
             ELSE IF s1.draining THEN [s1 EXCEPT !.batch = Tail(order)]
             ELSE HandleBatch(s1, Tail(order))

\* the tasks asyncio.wait reports as completed
Completed(s) ==
    {t \in {"handler_task"} : s.handler_task \in {"done", "raised"}}
    \cup {t \in {"cancellation_task"} : s.cancellation_task = "done"}
    \cup {t \in {"write_task"} : s.write_task.status = "done"}
    \cup {t \in {"read_task"} : s.read_task.status \in {"data", "eof", "error"}}

\* the orders in which a set can be iterated
Orders(S) ==
    {o \in [1..Cardinality(S) -> S] :
        \A i, j \in 1..Cardinality(S) : o[i] = o[j] => i = j}

\* cancel_await(read_task): cancels a pending task; awaiting a task that ended
\* with StopAsyncIteration or FixReadError raises it again
CancelAwaitRead(s) ==
    IF s.read_task.status = "pending"
    THEN [s EXCEPT !.read_task = Task("cancelled", NoFrame)]
    ELSE IF s.read_task.status = "eof"
    THEN [s EXCEPT !.raised = "StopAsyncIteration"]
    ELSE IF s.read_task.status = "error"
    THEN [s EXCEPT !.raised = "FixReadError"]
    ELSE s

\* cancel_await(write_task)
CancelAwaitWrite(s) ==
    IF s.write_task.status = "pending"
    THEN [s EXCEPT !.write_task = Task("cancelled", NoTransportMessage)]
    ELSE s

\* the shutdown after the service loop, up to the wait for the handler
Shutdown(s) ==
    IF s.state = "HANDLER_COMPLETED"
    THEN LET s1 == CancelAwaitRead(s)
         IN  IF s1.raised # "none" THEN [s1 EXCEPT !.pc = "raised"]
             ELSE [CancelAwaitWrite(s1) EXCEPT !.writer.closed = TRUE, !.pc = "done"]
    ELSE LET s1 == [s EXCEPT !.read_queue =
                        Append(@, TransportMessage("DISCONNECT_RECEIVED", NoFrame))]
             s2 == CancelAwaitWrite(s1)
             s3 == IF s2.state # "EOF"
                   THEN CancelAwaitRead([s2 EXCEPT !.writer.closed = TRUE])
                   ELSE s2
         IN  IF s3.raised # "none" THEN [s3 EXCEPT !.pc = "raised"]
             ELSE IF s3.handler_task # "cancelled"
                  THEN [s3 EXCEPT !.pc = "wait_handler"]
                  ELSE [s3 EXCEPT !.pc = "done"]

\* a connection is accepted: the handler object exists, the processor has not
\* run yet, and the session's stored outgoing seqnum is 0 or more
SpInit ==
    /\ sp = SpNew
    /\ cancellation_event = FALSE
    /\ \E prev \in 0..1 :
          /\ acc = [AdmNew(prev) EXCEPT !.connected = FALSE]
          /\ hist = HistNew(prev)

\* while state == FixState.OK and not cancellation_event.is_set()
LoopTest(s) ==
    IF s.raised # "none" THEN [s EXCEPT !.pc = "raised"]
    ELSE IF s.state = "OK" /\ ~cancellation_event THEN [s EXCEPT !.pc = "wait"]
    ELSE [s EXCEPT !.pc = "shutdown"]

\* the connection is followed until fix_stream_processor returns or raises
Over == sp.pc \in {"done", "raised"}

\* fix_stream_processor up to the first asyncio.wait of the service loop
SPStart ==
    /\ sp.pc = "init"
    /\ sp' = IF cancellation_event THEN [sp EXCEPT !.pc = "done"]
             ELSE [sp EXCEPT
                  !.read_queue = <<TransportMessage("CONNECTION_RECEIVED", NoFrame)>>,
                  !.handler_task = "created",
                  !.read_task = Task("pending", NoFrame),
                  !.write_task = Task("pending", NoTransportMessage),
                  !.cancellation_task = "pending",
                  !.pc = "wait"]
    /\ UNCHANGED <<cancellation_event, acc, hist>>

\* asyncio.wait returns the completed tasks and the loop handles them, in the
\* order the set gives them, until it awaits writer.drain() or is through and
\* tests its condition again
SPWait ==
    /\ sp.pc = "wait"
    /\ Completed(sp) # {}
    /\ \E order \in Orders(Completed(sp)) :
          LET s1 == HandleBatch(sp, order)
          IN  sp' = IF s1.draining THEN [s1 EXCEPT !.pc = "drain"] ELSE LoopTest(s1)
    /\ UNCHANGED <<cancellation_event, acc, hist>>

\* writer.drain() returns: the write task is renewed, the rest of the completed
\* tasks are handled and the loop tests its condition again
SPDrained ==
    /\ sp.pc = "drain"
    /\ LET s0 == [sp EXCEPT !.draining = FALSE,
                            !.write_task = Task("pending", NoTransportMessage)]
       IN  sp' = LoopTest(HandleBatch(s0, sp.batch))
    /\ UNCHANGED <<cancellation_event, acc, hist>>

\* the shutdown after the loop
SPShutdown ==
    /\ sp.pc = "shutdown"
    /\ sp' = Shutdown(sp)
    /\ hist' = [hist EXCEPT !.disconnects =
                   @ + (Len(sp'.read_queue) - Len(sp.read_queue))]
    /\ UNCHANGED <<cancellation_event, acc>>

\* asyncio.wait_for(handler_task, shutdown_timeout): the handler has finished,
\* and an exception it ended with is raised again
SPHandlerFinished ==
    /\ sp.pc = "wait_handler"
    /\ sp.handler_task \in {"done", "raised"}
    /\ sp' = IF sp.handler_task = "done" THEN [sp EXCEPT !.pc = "done"]
             ELSE [sp EXCEPT !.pc = "raised", !.raised = "HandlerError"]
    /\ UNCHANGED <<cancellation_event, acc, hist>>

\* asyncio.wait_for times out and cancel_await(handler_task) cancels the handler
SPHandlerTimeout ==
    /\ sp.pc = "wait_handler"
    /\ sp.handler_task \in {"created", "running"}
    /\ sp' = [sp EXCEPT !.handler_task = "cancelled", !.pc = "done"]
    /\ UNCHANGED <<cancellation_event, acc, hist>>

\* write_queue.get() of the write task gets a message
WriteTaskGet ==
    /\ ~Over
    /\ sp.write_task.status = "pending"
    /\ sp.write_queue # << >>
    /\ LET g == WriteQueueGet(sp.write_queue)
       IN  sp' = [sp EXCEPT !.write_task = Task("done", g.message),
                            !.write_queue = g.rest]
    /\ UNCHANGED <<cancellation_event, acc, hist>>

\* cancellation_event.wait() of the cancellation task returns
CancelTaskWake ==
    /\ ~Over
    /\ sp.cancellation_task = "pending"
    /\ cancellation_event
    /\ sp' = [sp EXCEPT !.cancellation_task = "done"]
    /\ UNCHANGED <<cancellation_event, acc, hist>>

\* a signal handler sets the cancellation event
SetCancel ==
    /\ ~Over
    /\ ~cancellation_event
    /\ cancellation_event' = TRUE
    /\ hist' = [hist EXCEPT !.enqueued_at_cancel = Len(hist.enqueued)]
    /\ UNCHANGED <<sp, acc>>

\* reader_iter.__anext__() of the read task yields the peer's next frame; a
\* peer sends a LOGON, if it sends one, as its first message
ReaderYield ==
    /\ ~Over
    /\ sp.read_task.status = "pending"
    /\ Len(hist.yielded) < MaxPeerFrames
    /\ \E msg_type \in IF hist.yielded = << >> THEN PeerMsgTypes
                          ELSE PeerMsgTypes \ {"LOGON"} :
          LET frame == [msg_type |-> msg_type, body |-> NoBody,
                        MsgSeqNum |-> Len(hist.yielded) + 1]
          IN  /\ sp' = [sp EXCEPT !.read_task = Task("data", frame)]
              /\ hist' = [hist EXCEPT !.yielded = Append(@, frame.MsgSeqNum)]
    /\ UNCHANGED <<cancellation_event, acc>>

\* the reader is exhausted: the read task ends with StopAsyncIteration
ReaderEof ==
    /\ ~Over
    /\ sp.read_task.status = "pending"
    /\ sp' = [sp EXCEPT !.read_task = Task("eof", NoFrame)]
    /\ UNCHANGED <<cancellation_event, acc, hist>>

\* the frames of a peer that breaks the framing: a wrong BeginString tag, a
\* wrong BodyLength tag, a BodyLength that ends the frame before its separator,
\* and a wrong CheckSum
CorruptKinds == {"BeginString", "BodyLength", "Separator", "CheckSum"}

CorruptFrame(kind) ==
    CASE kind = "BeginString" -> \* 7=F|9=5|35=0|10=062|
            <<55, 61, 70, 124, 57, 61, 53, 124, 51, 53, 61, 48, 124,
              49, 48, 61, 48, 54, 50, 124>>
      [] kind = "BodyLength" -> \* 8=F|8=5|35=0|10=062|
            <<56, 61, 70, 124, 56, 61, 53, 124, 51, 53, 61, 48, 124,
              49, 48, 61, 48, 54, 50, 124>>
      [] kind = "Separator" -> \* 8=F|9=4|35=0|10=062|
            <<56, 61, 70, 124, 57, 61, 52, 124, 51, 53, 61, 48, 124,
              49, 48, 61, 48, 54, 50, 124>>
      [] kind = "CheckSum" -> \* 8=F|9=5|35=0|10=063|
            <<56, 61, 70, 124, 57, 61, 53, 124, 51, 53, 61, 48, 124,
              49, 48, 61, 48, 54, 51, 124>>

\* fix_read_async on a fresh read buffer whose stream reader delivers `bytes`
\* in one read: the first event of the buffer that is not NeedsMoreData
ReadFrame(bytes) == NextEvent(RbReceive(NextEvent(RbNew).obj, bytes)).kind

\* reader_iter.__anext__() of the read task meets a frame that breaks the
\* framing: next_event raises FixReadError and the read task ends with it
ReaderError ==
    /\ ~Over
    /\ sp.read_task.status = "pending"
    /\ \E kind \in CorruptKinds :
          /\ ReadFrame(CorruptFrame(kind)) = "error"
          /\ hist' = [hist EXCEPT !.read_error = kind]
    /\ sp' = [sp EXCEPT !.read_task = Task("error", NoFrame)]
    /\ UNCHANGED <<cancellation_event, acc>>

\* a call into the acceptor starts with nothing assigned, sent, run or raised
FreshCall(a) ==
    [a EXCEPT !.assigned = << >>, !.sent = << >>, !.ran = << >>, !.raised = "none"]

\* what the world decides during one turn of the acceptor: whether the
\* application callback raises, the uuid drawn, whether the peer has been silent
\* for too long, whether a heartbeat is due
Envs ==
    [app_raises : BOOLEAN, token : {"t1"}, overdue : BOOLEAN,
     heartbeat_due : BOOLEAN]

\* the handler task starts: Acceptor.__call__ keeps send and receive
HandlerCall ==
    /\ ~Over
    /\ sp.handler_task = "created"
    /\ sp' = [sp EXCEPT !.handler_task = "running"]
    /\ acc' = [acc EXCEPT !.connected = TRUE]
    /\ UNCHANGED <<cancellation_event, hist>>

\* one turn of the acceptor's loop on a message from the read queue
HandlerReceive ==
    /\ ~Over
    /\ sp.handler_task = "running"
    /\ sp.read_queue # << >>
    /\ \E env \in Envs :
          LET r == Receive(sp.read_queue)
              Turn(a1) ==
              /\ acc' = FreshCall(a1)
              /\ sp' = [sp EXCEPT
                     !.read_queue = r.rest,
                     !.write_queue = @ \o
                         [i \in 1..Len(a1.sent) |->
                             TransportMessage("FIX_RECEIVED", a1.sent[i])],
                     !.handler_task =
                         IF a1.raised # "none" THEN "raised"
                         ELSE IF a1.transport_state # "CONNECTED" THEN "done"
                         ELSE "running"]
              /\ hist' = [hist EXCEPT
                     !.assigned = @ \o a1.assigned,
                     !.enqueued = @ \o [i \in 1..Len(a1.sent) |-> a1.sent[i].MsgSeqNum],
                     !.delivered = IF r.message.event = "FIX_RECEIVED"
                                   THEN Append(@, r.message.buffer.MsgSeqNum)
                                   ELSE @]
          IN  Turn(AcceptorTurn(FreshCall(acc), r.message, env,
                                AcceptorHeartbeatTimeout))
    /\ UNCHANGED cancellation_event

\* one turn of the acceptor's loop in which asyncio.wait_for(receive()) times out
HandlerTimeout ==
    /\ ~Over
    /\ sp.handler_task = "running"
    /\ acc.transport_state = "CONNECTED"
    /\ \E env \in Envs :
          LET Turn(a1) ==
              /\ acc' = FreshCall(a1)
              /\ sp' = [sp EXCEPT
                     !.write_queue = @ \o
                         [i \in 1..Len(a1.sent) |->
                             TransportMessage("FIX_RECEIVED", a1.sent[i])],
                     !.handler_task =
                         IF a1.raised # "none" THEN "raised"
                         ELSE IF a1.transport_state # "CONNECTED" THEN "done"
                         ELSE "running"]
              /\ hist' = [hist EXCEPT
                     !.assigned = @ \o a1.assigned,
                     !.enqueued = @ \o [i \in 1..Len(a1.sent) |-> a1.sent[i].MsgSeqNum]]
          IN  Turn(AcceptorTurn(FreshCall(acc),
                                TransportMessage("TIMEOUT_RECEIVED", NoFrame), env,
                                AcceptorHeartbeatTimeout))
    /\ UNCHANGED cancellation_event

\* the application calls Acceptor.send_message
AppSendMessage ==
    /\ ~Over
    /\ Len(hist.assigned) < MaxSends
    /\ LET Sent(a1) ==
           /\ acc' = FreshCall(a1)
           /\ sp' = [sp EXCEPT !.write_queue = @ \o
                         [i \in 1..Len(a1.sent) |->
                             TransportMessage("FIX_RECEIVED", a1.sent[i])]]
           /\ hist' = [hist EXCEPT
                  !.assigned = @ \o a1.assigned,
                  !.enqueued = @ \o [i \in 1..Len(a1.sent) |-> a1.sent[i].MsgSeqNum]]
       IN  Sent(EngineSendMessage(FreshCall(acc), "NEW_ORDER_SINGLE", NoBody))
    /\ UNCHANGED cancellation_event

\* the handler asks for the connection to be closed:
\* send(TransportMessage(TransportEvent.DISCONNECT_RECEIVED))
HandlerSendDisconnect ==
    /\ ~Over
    /\ sp.handler_task = "running"
    /\ acc.connected
    /\ ~hist.disconnect_sent
    /\ sp' = [sp EXCEPT !.write_queue =
                 Append(@, TransportMessage("DISCONNECT_RECEIVED", NoFrame))]
    /\ hist' = [hist EXCEPT !.disconnect_sent = TRUE]
    /\ UNCHANGED <<cancellation_event, acc>>

----------------------------------------------------------------------------
(* The main loop of Acceptor.__call__ under a clock.  The acceptor is      *)
(* taken on an established session: admin machine AUTHENTICATED, transport *)
(* machine CONNECTED, the last send and the last receive at time 0.  Time  *)
(* is counted in seconds; a handler turn takes no time.                    *)

MaxTime == 6

\* engine.heartbeat_timeout of the session
LoopHeartbeatTimeout == 2

\* heartbeat_threshold: int = 1
HeartbeatThreshold == 1

\* logon_timeout: Union[float, int] = 60
LogonTimeout == 60

\* self._logout_time: 0 stands for None (no session window configured)
LogoutTimes == {0, 3}

\* what the peer sends on an established session
LoopPeerMsgTypes == {"NEW_ORDER_SINGLE", "HEARTBEAT", "LOGON"}

LpNew ==
    [pc |-> "top", now |-> 0, deadline |-> 0,
     last_send_time_utc |-> 0, last_receive_time_utc |-> 0, logout_time |-> 0,
     a |-> [AdmNew(0) EXCEPT !.state = "AUTHENTICATED",
                             !.transport_state = "CONNECTED"],
     log |-> << >>, ended |-> "none", ended_in |-> "none", closed |-> FALSE]

LoopInit ==
    \E logout_time \in LogoutTimes : lp = [LpNew EXCEPT !.logout_time = logout_time]

\* a send that leaves the time of the last send as it was
SendTransportMessageTimeNotKept(l, a) ==
    IF a.sent = << >> THEN l
    ELSE [l EXCEPT !.log = @ \o [i \in 1..Len(a.sent) |->
                                    [msg_type |-> a.sent[i].msg_type, at |-> l.now]]]

\* Acceptor._send_transport_message: self._last_send_time_utc = send_time_utc
\* for what the call `a` has sent; log remembers each send and its time
SendTransportMessageTime(l, a) ==
    IF a.sent = << >> THEN l
    ELSE [l EXCEPT !.last_send_time_utc = l.now,
                   !.log = @ \o [i \in 1..Len(a.sent) |->
                                    [msg_type |-> a.sent[i].msg_type, at |-> l.now]]]

\* the loop after a call into the acceptor that left it as `a`: an exception
\* ends __call__, and ended_in keeps the admin state it was raised in
LoopAfter(l, a) ==
    [SendTransportMessageTime(l, a) EXCEPT
        !.a = FreshCall(a),
        !.ended = a.raised,
        !.ended_in = IF a.raised # "none" THEN l.a.state ELSE @]

\* Acceptor._send_logout_if_login_expired
SendLogoutIfLoginExpired(a, logout_time, now, env, heartbeat_timeout) ==
    IF a.state # "AUTHENTICATED" \/ logout_time = 0 THEN a
    ELSE IF now >= logout_time
         THEN AdminProcess("acceptor", a, AdminMessage("SEND_LOGOUT", NoBody),
                           env, heartbeat_timeout)
         ELSE a

\* seconds_since_last_send >= self.heartbeat_timeout
HeartbeatDue(l, heartbeat_timeout) ==
    l.now - l.last_send_time_utc >= heartbeat_timeout

\* the timeout _send_heartbeat_if_required returns, the heartbeat, if one was
\* due, having been sent
SecondsTillNextHeartbeat(l, heartbeat_timeout) ==
    IF l.a.transport_state # "CONNECTED" THEN LogonTimeout
    ELSE heartbeat_timeout - (l.now - l.last_send_time_utc)

\* (now - last_receive) - heartbeat_timeout > heartbeat_threshold
PeerOverdue(l, heartbeat_timeout) ==
    (l.now - l.last_receive_time_utc) - heartbeat_timeout > HeartbeatThreshold

LoopEnvs == [app_raises : BOOLEAN, token : {"t1"}]

LoopEnv(e, l, heartbeat_timeout) ==
    [app_raises |-> e.app_raises, token |-> e.token,
     overdue |-> PeerOverdue(l, heartbeat_timeout),
     heartbeat_due |-> HeartbeatDue(l, heartbeat_timeout)]

\* the head of a pass of the loop: the logout check
LoopLogoutStep(l, e) ==
    LoopAfter(l, SendLogoutIfLoginExpired(l.a, l.logout_time, l.now,
                                          LoopEnv(e, l, LoopHeartbeatTimeout),
                                          LoopHeartbeatTimeout))

\* _next_transport_message up to its wait: the heartbeat check and the timeout
LoopHeartbeatStep(l, e) ==
    IF l.ended # "none" THEN l
    ELSE LoopAfter(l, SendHeartbeatIfRequired(l.a, LoopEnv(e, l, LoopHeartbeatTimeout)))

\* the loop is suspended in asyncio.wait_for(receive(), timeout), or is over
LoopSuspend(l) ==
    IF l.ended # "none" THEN [l EXCEPT !.pc = "ended"]
    ELSE [l EXCEPT !.pc = "waiting",
                   !.deadline = l.now + SecondsTillNextHeartbeat(l, LoopHeartbeatTimeout)]

\* one pass of the loop up to the wait for the next transport message
LoopTop ==
    /\ lp.pc = "top"
    /\ \E e \in LoopEnvs : lp' = LoopSuspend(LoopHeartbeatStep(LoopLogoutStep(lp, e), e))

\* a loop that goes on whatever the transport state
LoopProcessedNoBreak(l, message) ==
    IF l.ended # "none" THEN [l EXCEPT !.pc = "ended"]
    ELSE [l EXCEPT !.pc = "top",
                   !.last_receive_time_utc =
                       IF message.event = "FIX_RECEIVED" THEN l.now ELSE @]

\* self._transport_state_machine.process(transport_message) and the test that
\* ends the loop; _handle_fix leaves the receive time when it is through
LoopProcessed(l, message) ==
    IF l.ended # "none" THEN [l EXCEPT !.pc = "ended"]
    ELSE IF l.a.transport_state # "CONNECTED"
    THEN [l EXCEPT !.pc = "ended", !.ended = "returned"]
    ELSE [l EXCEPT !.pc = "top",
                   !.last_receive_time_utc =
                       IF message.event = "FIX_RECEIVED" THEN l.now ELSE @]

LoopProcess(l, message, e) ==
    LoopProcessed(
        LoopAfter(l, TransportProcess(l.a, message,
                                      LoopEnv(e, l, LoopHeartbeatTimeout),
                                      LoopHeartbeatTimeout)),
        message)

\* receive() gives a frame of the peer before the timeout
LoopReceive ==
    /\ lp.pc = "waiting"
    /\ \E msg_type \in LoopPeerMsgTypes, e \in LoopEnvs :
          lp' = LoopProcess(lp,
                    TransportMessage("FIX_RECEIVED",
                        [msg_type |-> msg_type, body |-> NoBody, MsgSeqNum |-> 1]),
                    e)

\* receive() gives the DISCONNECT_RECEIVED of the stream processor
LoopDisconnect ==
    /\ lp.pc = "waiting"
    /\ \E e \in LoopEnvs :
          lp' = LoopProcess(lp, TransportMessage("DISCONNECT_RECEIVED", NoFrame), e)

\* asyncio.wait_for times out: TIMEOUT_RECEIVED
LoopTimeout ==
    /\ lp.pc = "waiting"
    /\ lp.now >= lp.deadline
    /\ \E e \in LoopEnvs :
          lp' = LoopProcess(lp, TransportMessage("TIMEOUT_RECEIVED", NoFrame), e)

\* a second passes while the loop waits; the timer fires no later than its
\* deadline
LoopTick ==
    /\ lp.pc = "waiting"
    /\ lp.now < lp.deadline
    /\ lp.now < MaxTime
    /\ lp' = [lp EXCEPT !.now = @ + 1]

\* the application calls send_message while the loop waits
LoopAppSend ==
    /\ lp.pc = "waiting"
    /\ Len(lp.log) < MaxSends
    /\ lp' = [LoopAfter(lp, EngineSendMessage(lp.a, "NEW_ORDER_SINGLE", NoBody))
                 EXCEPT !.pc = "waiting"]

\* the handler task is done: the stream processor closes the socket without
\* serving the write queue again
LoopClose ==
    /\ lp.pc = "ended"
    /\ ~lp.closed
    /\ lp' = [lp EXCEPT !.closed = TRUE]

\* the seconds between EPOCH_UTC, where _last_send_time_utc and
\* _last_receive_time_utc start, and the moment the handler is called
SessionStart == 3

\* Acceptor.__init__ and the entry of __call__: both machines DISCONNECTED, the
\* times of the last send and receive at EPOCH_UTC, no session window
LoopConnectInit ==
    lp = [LpNew EXCEPT !.a = AdmNew(0), !.now = SessionStart]

\* receive() gives the CONNECTION_RECEIVED the stream processor enqueues first
LoopConnection ==
    /\ lp.pc = "waiting"
    /\ lp.a.transport_state = "DISCONNECTED"
    /\ \E e \in LoopEnvs :
          lp' = LoopProcess(lp, TransportMessage("CONNECTION_RECEIVED", NoFrame), e)

\* the connection made, receive() gives what an established session gets
LoopConnected == lp.a.transport_state # "DISCONNECTED"

----------------------------------------------------------------------------
(* TransportStateMachine over an admin state machine: the transport        *)
(* handlers of transports/state_machine.py driving                         *)
(* AcceptorAdminStateMachine or InitiatorAdminStateMachine.                *)

TsmRoles == {"acceptor_machine", "initiator"}

\* the application callbacks
Callbacks ==
    {"on_admin_message", "on_logon", "on_heartbeat", "on_logout",
     "on_application_message"}

LogonErrors == {"LoginError", "Exception"}

TsmMsgTypes ==
    {"LOGON", "LOGOUT", "HEARTBEAT", "TEST_REQUEST", "RESEND_REQUEST",
     "SEQUENCE_RESET", "NEW_ORDER_SINGLE"}

\* AdminEvent.from_msg_type; "none" is the ValueError
AdminEventFromMsgType(msg_type) ==
    CASE msg_type = "LOGON" -> "LOGON_RECEIVED"
      [] msg_type = "LOGOUT" -> "LOGOUT_RECEIVED"
      [] msg_type = "REJECT" -> "REJECT_RECEIVED"
      [] msg_type = "HEARTBEAT" -> "HEARTBEAT_RECEIVED"
      [] msg_type = "TEST_REQUEST" -> "TEST_REQUEST_RECEIVED"
      [] msg_type = "RESEND_REQUEST" -> "RESEND_REQUEST_RECEIVED"
      [] msg_type = "SEQUENCE_RESET" -> "SEQUENCE_RESET_RECEIVED"
      [] msg_type = "XML_MESSAGE" -> "XML_MESSAGE_RECEIVED"
      [] OTHER -> "none"

\* the application callback the initiator's handler of `event` awaits
CallbackOf(event) ==
    CASE event = "LOGON_RECEIVED" -> "on_logon"
      [] event = "HEARTBEAT_RECEIVED" -> "on_heartbeat"
      [] event = "LOGOUT_RECEIVED" -> "on_logout"
      [] OTHER -> "none"

\* TransportStateMachine._handle_admin_message
TransportHandleAdminMessage(role, a, message, env, heartbeat_timeout) ==
    LET Processed(event) ==
            IF event = "none" THEN [a EXCEPT !.raised = "ValueError"]
            ELSE AdminProcess(role, a, AdminMessage(event, message.body),
                              [env EXCEPT !.app_raises =
                                              (env.raising = CallbackOf(event))],
                              heartbeat_timeout)
    IN  IF env.raising = "on_admin_message"
        THEN [a EXCEPT !.raised = "ApplicationError"]
        ELSE Processed(AdminEventFromMsgType(message.msg_type))

\* TransportStateMachine._handle_fix
TransportHandleFix(role, a, msg, env, heartbeat_timeout) ==
    LET SetIncomingSeqnum(a1) ==
            IF a1.raised # "none" THEN [a |-> a1, next |-> NoTransportMessage]
            ELSE [a |-> [a1 EXCEPT !.incoming_seqnum = msg.buffer.MsgSeqNum],
                  next |-> TransportMessage("FIX_HANDLED", NoFrame)]
    IN  SetIncomingSeqnum(
            IF msg.buffer.msg_type \in AdminMsgTypes
            THEN TransportHandleAdminMessage(role, a, msg.buffer, env,
                                             heartbeat_timeout)
            ELSE IF env.raising = "on_application_message"
                 THEN [a EXCEPT !.raised = "ApplicationError"]
                 ELSE a)

\* TransportStateMachine._handle_timeout; env.overdue says whether the peer has
\* been silent for longer than heartbeat_timeout + heartbeat_threshold
TransportHandleTimeout(role, a, env, heartbeat_timeout) ==
    IF a.state # "AUTHENTICATED"
    THEN [a |-> [a EXCEPT !.raised = "RuntimeError"], next |-> NoTransportMessage]
    ELSE LET Handled(a1) ==
                 IF a1.raised # "none" THEN [a |-> a1, next |-> NoTransportMessage]
                 ELSE [a |-> a1, next |-> TransportMessage("TIMEOUT_HANDLED", NoFrame)]
         IN  Handled(IF env.overdue
                     THEN AdminProcess(role, a,
                                       AdminMessage("TEST_HEARTBEAT_REQUIRED", NoBody),
                                       env, heartbeat_timeout)
                     ELSE a)

\* TransportStateMachine.__init__: the handler bound to (state, event), run on
\* `msg`
TransportStateMachineHandler(role, name, a, msg, env, heartbeat_timeout) ==
    CASE name = "_handle_transport_connected" ->
            [a |-> AdminProcess(role, a, AdminMessage("CONNECTED", NoBody),
                                env, heartbeat_timeout),
             next |-> NoTransportMessage]
      [] name = "_handle_fix" ->
            TransportHandleFix(role, a, msg, env, heartbeat_timeout)
      [] name = "_handle_timeout" ->
            TransportHandleTimeout(role, a, env, heartbeat_timeout)
      [] name = "_handle_disconnect" -> [a |-> a, next |-> NoTransportMessage]

\* TransportStateProcessor.process
RECURSIVE TransportStateMachineProcess(_, _, _, _, _)
TransportStateMachineProcess(role, a, msg, env, heartbeat_timeout) ==
    IF msg.event = "none" THEN a
    ELSE LET handler == HandlerFor(ACCEPTOR_TRANSPORT_HANDLERS,
                                   a.transport_state, msg.event)
             t == TransportTransition(a.transport_state, msg.event)
             a1 == [a EXCEPT !.transport_state = t.state]
         IN  IF t.raised THEN [a EXCEPT !.raised = "InvalidStateTransitionError"]
             ELSE IF handler = "none" THEN a1
             ELSE LET GoOn(r) ==
                          IF r.a.raised # "none" THEN r.a
                          ELSE TransportStateMachineProcess(role, r.a, r.next, env,
                                                            heartbeat_timeout)
                  IN  GoOn(TransportStateMachineHandler(role, handler, a1, msg,
                                                        env, heartbeat_timeout))

\* the callbacks a frame of type msg_type can reach
CallbacksOn(msg_type) ==
    IF msg_type \notin AdminMsgTypes THEN {"on_application_message"}
    ELSE {"on_admin_message"} \cup
         ({CallbackOf(AdminEventFromMsgType(msg_type))} \ {"none"})

\* what the application does during a call: the callback that raises, if any,
\* and how on_logon fails when it is the one
TsmEnvs(callbacks) ==
    {[raising |-> c, on_logon |-> "ok", app_raises |-> FALSE, token |-> "t1",
      overdue |-> FALSE] : c \in (callbacks \ {"on_logon"}) \cup {"none"}}
    \cup {[raising |-> "on_logon", on_logon |-> e, app_raises |-> FALSE,
           token |-> "t1", overdue |-> FALSE] :
              e \in IF "on_logon" \in callbacks THEN LogonErrors ELSE {}}

\* the bodies the peer sends with a message type
TsmBodies(msg_type) ==
    CASE msg_type \in {"TEST_REQUEST", "HEARTBEAT"} ->
            {b \in FixBodies : b.has \subseteq {"TestReqID"}}
      [] msg_type = "SEQUENCE_RESET" ->
            {b \in FixBodies : b.has \subseteq {"NewSeqNo"}}
      [] OTHER -> {NoBody}

NoTsmCall ==
    [from |-> "none", transport_from |-> "none", event |-> "none",
     msg_type |-> "none", fix |-> NoBody, raising |-> "none", on_logon |-> "ok",
     overdue |-> FALSE, sent |-> << >>, ran |-> << >>, raised |-> "none",
     last_sent |-> NoFrame]

\* the two machines of a fresh session
TsmInit ==
    /\ adm_role \in TsmRoles
    /\ adm_heartbeat_timeout \in HeartbeatTimeouts
    /\ adm = AdmNew(0)
    /\ adm_call = NoTsmCall

\* await transport_state_machine.process(message), an exception it raises seen
\* by the caller
TsmCall(message, env) ==
    LET Returned(a1) ==
            /\ adm' = a1
            /\ adm_call' = [from |-> adm.state,
                            transport_from |-> adm.transport_state,
                            event |-> message.event,
                            msg_type |-> message.buffer.msg_type,
                            fix |-> message.buffer.body,
                            raising |-> env.raising, on_logon |-> env.on_logon,
                            overdue |-> env.overdue,
                            sent |-> a1.sent, ran |-> a1.ran, raised |-> a1.raised,
                            last_sent |-> IF adm_call.sent = << >>
                                          THEN adm_call.last_sent
                                          ELSE adm_call.sent[Len(adm_call.sent)]]
    IN  /\ adm.outgoing_seqnum < MaxSeqNum
        /\ Returned(TransportStateMachineProcess(
                        adm_role,
                        [adm EXCEPT !.assigned = << >>, !.sent = << >>,
                                    !.ran = << >>, !.raised = "none"],
                        message, env, adm_heartbeat_timeout))
        /\ UNCHANGED <<adm_role, adm_heartbeat_timeout>>

\* the connection is made
TsmConnection ==
    \E env \in TsmEnvs({}) :
        TsmCall(TransportMessage("CONNECTION_RECEIVED", NoFrame), env)

\* a frame of the peer arrives, numbered after the one before it
TsmFix ==
    \E msg_type \in TsmMsgTypes :
    \E env \in TsmEnvs(CallbacksOn(msg_type)), fix \in TsmBodies(msg_type) :
        TsmCall(TransportMessage("FIX_RECEIVED",
                                 [msg_type |-> msg_type, body |-> fix,
                                  MsgSeqNum |-> (adm.incoming_seqnum % MaxSeqNum) + 1]),
                env)

\* the wait for a frame times out
TsmTimeout ==
    \E env \in TsmEnvs({}), overdue \in BOOLEAN, token \in Tokens :
        TsmCall(TransportMessage("TIMEOUT_RECEIVED", NoFrame),
                [env EXCEPT !.overdue = overdue, !.token = token])

\* the peer disconnects
TsmDisconnect ==
    \E env \in TsmEnvs({}) :
        TsmCall(TransportMessage("DISCONNECT_RECEIVED", NoFrame), env)

----------------------------------------------------------------------------
(* The integrity fields of a frame: _regenerate_integrity of the encoder   *)
(* and calc_checksum, on the same frame.                                   *)

MaxFields == 2

\* an encoded field: (number, value)
Pair(field, value) == [field |-> field, value |-> value]

\* the body fields an encoded message is made of:
\* 35=0  35=A  49=AB  56=zz  58=~~~  10=7
BodyPairs ==
    {Pair(<<51, 53>>, <<48>>), Pair(<<51, 53>>, <<65>>),
     Pair(<<52, 57>>, <<65, 66>>), Pair(<<53, 54>>, <<122, 122>>),
     Pair(<<53, 56>>, <<126, 126, 126>>), Pair(<<D1, D0>>, <<55>>)}

\* the encoded message handed to _regenerate_integrity: BeginString,
\* BodyLength, the body fields and CheckSum, the integrity fields not yet right
EncodedMessages ==
    {<<Pair(<<D8>>, <<70>>), Pair(<<D9>>, <<D0>>)>> \o body
         \o <<Pair(<<D1, D0>>, <<D0, D0, D0>>)>> :
        body \in UNION {[1..n -> BodyPairs] : n \in 1..MaxFields}}

\* sep.join(field + b'=' + value for field, value in pairs) + sep
RECURSIVE JoinPairs(_, _)
JoinPairs(pairs, sep) ==
    IF pairs = << >> THEN << >>
    ELSE pairs[1].field \o <<EQ>> \o pairs[1].value \o <<sep>>
             \o JoinPairs(Tail(pairs), sep)

\* _regenerate_integrity: the frame, the body length and the checksum string;
\* the protocol's begin_string is F
RegenerateIntegrity(encoded_message, sep, convert_sep_for_checksum) ==
    LET body == JoinPairs(SubSeq(encoded_message, 3, Len(encoded_message) - 1), sep)
        header == JoinPairs(<<Pair(<<D8>>, <<70>>), Pair(<<D9>>, Str(Len(body)))>>,
                            sep)
        buf == header \o body
        checksum_str ==
            Format03(SumBytes(IF sep = SOH \/ ~convert_sep_for_checksum THEN buf
                              ELSE Replace(buf, sep, SOH)) % 256)
    IN  [buf |-> buf \o <<D1, D0, EQ>> \o checksum_str \o <<sep>>,
         body_length |-> Len(body), checksum_str |-> checksum_str]

CkNew ==
    [pc |-> "idle", encoded_message |-> << >>, sep |-> SOH, convert |-> FALSE,
     buf |-> << >>, checksum_str |-> << >>, calc_checksum |-> << >>,
     read |-> "none"]

\* an encoded message, a separator and the conversion flag
CkInit ==
    \E encoded_message \in EncodedMessages, sep \in {SOH, BAR}, convert \in BOOLEAN :
        ck = [CkNew EXCEPT !.pc = "encode", !.encoded_message = encoded_message,
                           !.sep = sep, !.convert = convert]

\* encode(..., regenerate_integrity=True): _regenerate_integrity builds the frame
CkRegenerateIntegrity ==
    /\ ck.pc = "encode"
    /\ LET Built(r) == ck' = [ck EXCEPT !.pc = "encoded", !.buf = r.buf,
                                        !.checksum_str = r.checksum_str]
       IN  Built(RegenerateIntegrity(ck.encoded_message, ck.sep, ck.convert))

\* calc_checksum(buf, sep, convert_sep_to_soh_for_checksum) on the frame
CkCalcChecksum ==
    /\ ck.pc = "encoded"
    /\ ck' = [ck EXCEPT !.pc = "done",
                        !.calc_checksum = CalcChecksum(ck.buf, ck.sep, ck.convert)]

\* the CheckSum values a peer may put on a frame whose right one is
\* checksum_str: that one, its neighbours modulo 256, and it with a blank for
\* its first digit
PeerCheckSums(checksum_str) ==
    {checksum_str,
     Format03((ParseInt(checksum_str) + 1) % 256),
     Format03((ParseInt(checksum_str) + 255) % 256),
     <<32>> \o SubSeq(checksum_str, 2, 3)}

\* the frame arrives at a read buffer (sep=b'|', conversion on, validate on)
\* carrying one of those CheckSum values: the event next_event() ends with
CkReadFrame ==
    /\ ck.pc = "done"
    /\ ck.sep = RbSep
    /\ ck.convert = RbConvert
    /\ \E checksum \in PeerCheckSums(ck.checksum_str) :
          LET Read(buf) == ck' = [ck EXCEPT !.pc = "read", !.buf = buf,
                                            !.read = ReadFrame(buf)]
          IN  Read(Slice(ck.buf, 0, Len(ck.buf) - 4) \o checksum \o <<ck.sep>>)

----------------------------------------------------------------------------
(* Overlapping send_message calls. A call runs until it really suspends:   *)
(* get_outgoing_seqnum returns without suspending, set_outgoing_seqnum     *)
(* assigns the field and then suspends in the save (file or database I/O   *)
(* on another thread), and the put on the unbounded write queue does not   *)
(* suspend. The saves of two calls complete in either order.               *)

MaxCalls == 3

Calls == 1..MaxCalls

SndNew ==
    [outgoing_seqnum |-> 0,
     call |-> [i \in Calls |-> [pc |-> "idle", msg_seq_num |-> 0]],
     write_queue |-> << >>]

SndInit ==
    \E seqnum \in 0..MaxSeqNum : snd = [SndNew EXCEPT !.outgoing_seqnum = seqnum]

\* send_message up to the suspension inside set_outgoing_seqnum:
\* seqnum = get_outgoing_seqnum(); seqnum += 1; self._outgoing_seqnum = seqnum;
\* await self._save()
SendMessageCall(i) ==
    /\ snd.call[i].pc = "idle"
    /\ snd' = [snd EXCEPT !.outgoing_seqnum = snd.outgoing_seqnum + 1,
                          !.call[i] = [pc |-> "saving",
                                       msg_seq_num |-> snd.outgoing_seqnum + 1]]

\* the save completes: _next_outgoing_seqnum returns, the frame is built with
\* its MsgSeqNum and put on the write queue
SendMessageResume(i) ==
    /\ snd.call[i].pc = "saving"
    /\ snd' = [snd EXCEPT !.call[i].pc = "done",
                          !.write_queue = Append(snd.write_queue,
                                                 snd.call[i].msg_seq_num)]

----------------------------------------------------------------------------
(* The aiofix read buffer (src/aiofix), the one the tests import. It is    *)
(* the read buffer above except for _process_body, which puts the bytes    *)
(* after the frame back on the queue even when there are none.             *)

AiofixProcessBody(o) ==
    LET o1 == PopIntoBuf(o)
        data == Slice(o1.buf, 0, o1.required)
        checksum == Slice(data, Len(data) - ChecksumLength, Len(data) - SepLength)
        checksum_value == Slice(checksum, 3, Len(checksum))
        expected == CalcChecksum(data, RbSep, RbConvert)
        rest == <<Slice(o1.buf, o1.required, Len(o1.buf))>> \o o1.queue
    IN  IF Len(o1.buf) < o1.required THEN Resp(o1, "need", << >>, FALSE)
        ELSE IF ~EndsWith(data, <<RbSep>>) THEN Resp(o1, "error", << >>, FALSE)
        ELSE IF RbValidate /\ ~StartsWith(checksum, <<D1, D0, EQ>>)
             THEN Resp(o1, "error", << >>, FALSE)
        ELSE IF RbValidate /\ checksum_value # expected
             THEN Resp(o1, "error", << >>, FALSE)
        ELSE Resp([o1 EXCEPT !.queue = rest, !.buf = << >>, !.index = 0,
                             !.required = 0],
                  "data", data, TRUE)

\* self._transitions[key][0]() of the aiofix buffer
AiofixCall(key, o) ==
    IF key = <<"EXPECT_BODY", "HAS_DATA">> THEN AiofixProcessBody(o)
    ELSE RbCall(key, o)

\* aiofix FixReadBuffer.next_event
RECURSIVE AiofixNextEvent(_)
AiofixNextEvent(o) ==
    IF ~IsExpecting(o.state) THEN Resp(o, "error", << >>, FALSE)
    ELSE LET key == <<o.state, InputState(o.queue)>>
         IN  IF key \notin RbTransitionKeys THEN Resp(o, "error", << >>, FALSE)
             ELSE LET r == AiofixCall(key, o)
                      o2 == IF r.complete
                            THEN [r.obj EXCEPT !.state = RbNextState(key)]
                            ELSE r.obj
                  IN  IF r.kind = "error" THEN Resp(r.obj, "error", << >>, FALSE)
                      ELSE IF r.kind # "none" THEN Resp(o2, r.kind, r.data, r.complete)
                      ELSE AiofixNextEvent(o2)

AxNew ==
    [rb |-> RbNew, last |-> "start", stream |-> << >>, input_buf |-> << >>,
     pos |-> 0, emitted |-> << >>, received_empty |-> FALSE]

\* the bytes an input may lack at its end
MaxCut == 1

\* test_read_valid_buffer, test_read_corrupt_buffer: a reader and the
\* concatenated messages, whole or short of their last bytes
AxInit ==
    \E stream \in Streams, cut \in 0..MaxCut :
        ax = [AxNew EXCEPT !.stream = stream,
                           !.input_buf = Slice(StreamBytes(stream), 0,
                                               Len(StreamBytes(stream)) - cut)]

\* fix_event = reader.next_event()
AxNextEvent ==
    /\ ax.last \in {"start", "fed", "data"}
    /\ LET Returned(r) ==
               ax' = [ax EXCEPT !.rb = r.obj, !.last = r.kind,
                                !.emitted = IF r.kind = "data"
                                            THEN Append(ax.emitted, r.data)
                                            ELSE ax.emitted]
       IN  Returned(AiofixNextEvent(ax.rb))

\* NEEDS_MORE_DATA: buf = next(writer); reader.receive(buf)
AxReceive ==
    /\ ax.last = "need"
    /\ ax.pos < Len(ax.input_buf)
    /\ \E n \in 1..(Len(ax.input_buf) - ax.pos) :
          ax' = [ax EXCEPT !.rb = RbReceive(ax.rb, Slice(ax.input_buf,
                                                         ax.pos, ax.pos + n)),
                           !.pos = ax.pos + n, !.last = "fed"]

\* NEEDS_MORE_DATA and StopIteration: reader.receive(b'')
AxReceiveEmpty ==
    /\ ax.last = "need"
    /\ ax.pos = Len(ax.input_buf)
    /\ ax' = [ax EXCEPT !.rb = RbReceive(ax.rb, << >>), !.last = "fed",
                        !.received_empty = TRUE]

----------------------------------------------------------------------------
(* delay_for_time_period. A time of day is a tick 0..TicksPerDay-1, a      *)
(* datetime the number of ticks since midnight of day 0, a timedelta a     *)
(* number of ticks.                                                        *)

TicksPerDay == 8

Times == 0..(TicksPerDay - 1)

\* datetime.combine(now.date(), time, now.tzinfo)
Combine(now, time) == (now \div TicksPerDay) * TicksPerDay + time

\* is_time_in_range
IsTimeInRange(start_time, end_time, target_time) ==
    IF start_time <= end_time
    THEN start_time <= target_time /\ target_time <= end_time
    ELSE start_time <= target_time \/ target_time <= end_time

\* delay_for_time_period(now, start_time, end_time): (time_to_wait, end_datetime)
DelayForTimePeriod(now, start_time, end_time) ==
    LET next_day == IF start_time < end_time /\ now > Combine(now, end_time)
                    THEN TicksPerDay ELSE 0
        start_datetime == Combine(now, start_time) + next_day
        end_datetime == IF start_time < end_time
                        THEN Combine(now, end_time) + next_day
                        ELSE Combine(now, end_time) + TicksPerDay
    IN  [time_to_wait |-> IF now < start_datetime THEN start_datetime - now ELSE 0,
         end_datetime |-> end_datetime]

DtNew ==
    [pc |-> "idle", now |-> 0, start_time |-> 0, end_time |-> 0,
     time_to_wait |-> 0, end_datetime |-> 0]

\* a moment of day 0 or day 1 and a window
DtInit ==
    \E now \in 0..(2 * TicksPerDay - 1), start_time \in Times, end_time \in Times :
        dt = [DtNew EXCEPT !.pc = "call", !.now = now, !.start_time = start_time,
                           !.end_time = end_time]

DtDelayForTimePeriod ==
    /\ dt.pc = "call"
    /\ LET Returned(r) == dt' = [dt EXCEPT !.pc = "returned",
                                           !.time_to_wait = r.time_to_wait,
                                           !.end_datetime = r.end_datetime]
       IN  Returned(DelayForTimePeriod(dt.now, dt.start_time, dt.end_time))

----------------------------------------------------------------------------
(* Specifications                                                          *)

vars == <<rb, rb_last, rb_stream, rb_pos, rb_emitted, rb_split, fsm,
          adm_role, adm_heartbeat_timeout, adm, adm_call,
          sp, cancellation_event, acc, hist, lp, ck, snd, ax, dt>>

spVars == <<sp, cancellation_event, acc, hist>>

fsmVars == <<fsm>>

admVars == <<adm_role, adm_heartbeat_timeout, adm, adm_call>>

lpVars == <<lp>>

ckVars == <<ck>>

RbIdle ==
    /\ rb = RbNew
    /\ rb_last = "start"
    /\ rb_stream = << >>
    /\ rb_pos = 0
    /\ rb_emitted = << >>
    /\ rb_split = FALSE

FsmIdle ==
    fsm = [kind |-> "idle", state |-> "DISCONNECTED", from |-> "DISCONNECTED",
           event |-> "none", raised |-> FALSE]

AdmIdle ==
    /\ adm_role = "idle"
    /\ adm_heartbeat_timeout = 0
    /\ adm = AdmNew(0)
    /\ adm_call = NoCall

SpIdle ==
    /\ sp = SpNew
    /\ cancellation_event = FALSE
    /\ acc = AdmNew(0)
    /\ hist = HistNew(0)

LpIdle == lp = LpNew

CkIdle == ck = CkNew

sndVars == <<snd>>

axVars == <<ax>>

dtVars == <<dt>>

SndIdle == snd = SndNew

AxIdle == ax = AxNew

DtIdle == dt = DtNew

\* the variables of the three small specifications at their idle values
RestIdle == SndIdle /\ AxIdle /\ DtIdle

\* the read buffer under its driver
InitRB == RbInit /\ FsmIdle /\ AdmIdle /\ SpIdle /\ LpIdle /\ CkIdle /\ RestIdle

NextRB ==
    \/ RbNextEvent /\ UNCHANGED <<fsmVars, admVars, spVars, lpVars, ckVars, sndVars, axVars, dtVars>>
    \/ RbFeed /\ UNCHANGED <<fsmVars, admVars, spVars, lpVars, ckVars, sndVars, axVars, dtVars>>
    \/ RbFeedEof /\ UNCHANGED <<fsmVars, admVars, spVars, lpVars, ckVars, sndVars, axVars, dtVars>>

SpecRB == InitRB /\ [][NextRB]_vars

\* the read buffer under its driver, on a stream that may end early
NextRBCut ==
    \/ RbNextEvent /\ UNCHANGED <<fsmVars, admVars, spVars, lpVars, ckVars, sndVars, axVars, dtVars>>
    \/ RbFeed /\ UNCHANGED <<fsmVars, admVars, spVars, lpVars, ckVars, sndVars, axVars, dtVars>>
    \/ RbFeedEof /\ UNCHANGED <<fsmVars, admVars, spVars, lpVars, ckVars, sndVars, axVars, dtVars>>
    \/ RbFeedEofEarly /\ UNCHANGED <<fsmVars, admVars, spVars, lpVars, ckVars, sndVars, axVars, dtVars>>

SpecRBCut == InitRB /\ [][NextRBCut]_vars

\* the read buffer under a caller that goes on after EndOfFile
NextRBEof ==
    \/ RbNextEvent /\ UNCHANGED <<fsmVars, admVars, spVars, lpVars, ckVars, sndVars, axVars, dtVars>>
    \/ RbFeed /\ UNCHANGED <<fsmVars, admVars, spVars, lpVars, ckVars, sndVars, axVars, dtVars>>
    \/ RbFeedEof /\ UNCHANGED <<fsmVars, admVars, spVars, lpVars, ckVars, sndVars, axVars, dtVars>>
    \/ RbFeedEofEarly /\ UNCHANGED <<fsmVars, admVars, spVars, lpVars, ckVars, sndVars, axVars, dtVars>>
    \/ RbNextEventAtEof /\ UNCHANGED <<fsmVars, admVars, spVars, lpVars, ckVars, sndVars, axVars, dtVars>>

SpecRBEof == InitRB /\ [][NextRBEof]_vars

\* the bare transition tables
InitFSM == FsmInit /\ RbIdle /\ AdmIdle /\ SpIdle /\ LpIdle /\ CkIdle /\ RestIdle

NextFSM ==
    \/ FsmAdminTransition /\ UNCHANGED <<rbVars, admVars, spVars, lpVars, ckVars, sndVars, axVars, dtVars>>
    \/ FsmTransportTransition /\ UNCHANGED <<rbVars, admVars, spVars, lpVars, ckVars, sndVars, axVars, dtVars>>

SpecFSM == InitFSM /\ [][NextFSM]_vars

\* the admin state machine with its handlers
InitAdmin == AdmInit /\ RbIdle /\ FsmIdle /\ SpIdle /\ LpIdle /\ CkIdle /\ RestIdle

NextAdmin == AdmProcess /\ UNCHANGED <<rbVars, fsmVars, spVars, lpVars, ckVars, sndVars, axVars, dtVars>>

SpecAdmin == InitAdmin /\ [][NextAdmin]_vars

\* the transport state machine over the admin state machine of either role
InitTSM == TsmInit /\ RbIdle /\ FsmIdle /\ SpIdle /\ LpIdle /\ CkIdle /\ RestIdle

NextTSM ==
    \/ TsmConnection /\ UNCHANGED <<rbVars, fsmVars, spVars, lpVars, ckVars, sndVars, axVars, dtVars>>
    \/ TsmFix /\ UNCHANGED <<rbVars, fsmVars, spVars, lpVars, ckVars, sndVars, axVars, dtVars>>
    \/ TsmTimeout /\ UNCHANGED <<rbVars, fsmVars, spVars, lpVars, ckVars, sndVars, axVars, dtVars>>
    \/ TsmDisconnect /\ UNCHANGED <<rbVars, fsmVars, spVars, lpVars, ckVars, sndVars, axVars, dtVars>>

SpecTSM == InitTSM /\ [][NextTSM]_vars

\* the stream processor, its acceptor, the peer, the application and the signals
InitSP == SpInit /\ RbIdle /\ FsmIdle /\ AdmIdle /\ LpIdle /\ CkIdle /\ RestIdle

NextSP ==
    \/ SPStart /\ UNCHANGED <<rbVars, fsmVars, admVars, lpVars, ckVars, sndVars, axVars, dtVars>>
    \/ SPWait /\ UNCHANGED <<rbVars, fsmVars, admVars, lpVars, ckVars, sndVars, axVars, dtVars>>
    \/ SPDrained /\ UNCHANGED <<rbVars, fsmVars, admVars, lpVars, ckVars, sndVars, axVars, dtVars>>
    \/ SPShutdown /\ UNCHANGED <<rbVars, fsmVars, admVars, lpVars, ckVars, sndVars, axVars, dtVars>>
    \/ SPHandlerFinished /\ UNCHANGED <<rbVars, fsmVars, admVars, lpVars, ckVars, sndVars, axVars, dtVars>>
    \/ SPHandlerTimeout /\ UNCHANGED <<rbVars, fsmVars, admVars, lpVars, ckVars, sndVars, axVars, dtVars>>
    \/ WriteTaskGet /\ UNCHANGED <<rbVars, fsmVars, admVars, lpVars, ckVars, sndVars, axVars, dtVars>>
    \/ CancelTaskWake /\ UNCHANGED <<rbVars, fsmVars, admVars, lpVars, ckVars, sndVars, axVars, dtVars>>
    \/ SetCancel /\ UNCHANGED <<rbVars, fsmVars, admVars, lpVars, ckVars, sndVars, axVars, dtVars>>
    \/ ReaderYield /\ UNCHANGED <<rbVars, fsmVars, admVars, lpVars, ckVars, sndVars, axVars, dtVars>>
    \/ ReaderEof /\ UNCHANGED <<rbVars, fsmVars, admVars, lpVars, ckVars, sndVars, axVars, dtVars>>
    \/ HandlerCall /\ UNCHANGED <<rbVars, fsmVars, admVars, lpVars, ckVars, sndVars, axVars, dtVars>>
    \/ HandlerReceive /\ UNCHANGED <<rbVars, fsmVars, admVars, lpVars, ckVars, sndVars, axVars, dtVars>>
    \/ HandlerTimeout /\ UNCHANGED <<rbVars, fsmVars, admVars, lpVars, ckVars, sndVars, axVars, dtVars>>
    \/ AppSendMessage /\ UNCHANGED <<rbVars, fsmVars, admVars, lpVars, ckVars, sndVars, axVars, dtVars>>
    \/ HandlerSendDisconnect /\ UNCHANGED <<rbVars, fsmVars, admVars, lpVars, ckVars, sndVars, axVars, dtVars>>

SpecSP == InitSP /\ [][NextSP]_vars

\* the stream processor with a peer that may break the framing
NextSPCorrupt ==
    \/ SPStart /\ UNCHANGED <<rbVars, fsmVars, admVars, lpVars, ckVars, sndVars, axVars, dtVars>>
    \/ SPWait /\ UNCHANGED <<rbVars, fsmVars, admVars, lpVars, ckVars, sndVars, axVars, dtVars>>
    \/ SPDrained /\ UNCHANGED <<rbVars, fsmVars, admVars, lpVars, ckVars, sndVars, axVars, dtVars>>
    \/ SPShutdown /\ UNCHANGED <<rbVars, fsmVars, admVars, lpVars, ckVars, sndVars, axVars, dtVars>>
    \/ SPHandlerFinished /\ UNCHANGED <<rbVars, fsmVars, admVars, lpVars, ckVars, sndVars, axVars, dtVars>>
    \/ SPHandlerTimeout /\ UNCHANGED <<rbVars, fsmVars, admVars, lpVars, ckVars, sndVars, axVars, dtVars>>
    \/ WriteTaskGet /\ UNCHANGED <<rbVars, fsmVars, admVars, lpVars, ckVars, sndVars, axVars, dtVars>>
    \/ CancelTaskWake /\ UNCHANGED <<rbVars, fsmVars, admVars, lpVars, ckVars, sndVars, axVars, dtVars>>
    \/ SetCancel /\ UNCHANGED <<rbVars, fsmVars, admVars, lpVars, ckVars, sndVars, axVars, dtVars>>
    \/ ReaderYield /\ UNCHANGED <<rbVars, fsmVars, admVars, lpVars, ckVars, sndVars, axVars, dtVars>>
    \/ ReaderEof /\ UNCHANGED <<rbVars, fsmVars, admVars, lpVars, ckVars, sndVars, axVars, dtVars>>
    \/ ReaderError /\ UNCHANGED <<rbVars, fsmVars, admVars, lpVars, ckVars, sndVars, axVars, dtVars>>
    \/ HandlerCall /\ UNCHANGED <<rbVars, fsmVars, admVars, lpVars, ckVars, sndVars, axVars, dtVars>>
    \/ HandlerReceive /\ UNCHANGED <<rbVars, fsmVars, admVars, lpVars, ckVars, sndVars, axVars, dtVars>>
    \/ HandlerTimeout /\ UNCHANGED <<rbVars, fsmVars, admVars, lpVars, ckVars, sndVars, axVars, dtVars>>
    \/ AppSendMessage /\ UNCHANGED <<rbVars, fsmVars, admVars, lpVars, ckVars, sndVars, axVars, dtVars>>
    \/ HandlerSendDisconnect /\ UNCHANGED <<rbVars, fsmVars, admVars, lpVars, ckVars, sndVars, axVars, dtVars>>

SpecSPCorrupt == InitSP /\ [][NextSPCorrupt]_vars

\* the integrity fields of an encoded frame
InitChecksum == CkInit /\ RbIdle /\ FsmIdle /\ AdmIdle /\ SpIdle /\ LpIdle /\ RestIdle

NextChecksum ==
    \/ CkRegenerateIntegrity /\ UNCHANGED <<rbVars, fsmVars, admVars, spVars, lpVars, sndVars, axVars, dtVars>>
    \/ CkCalcChecksum /\ UNCHANGED <<rbVars, fsmVars, admVars, spVars, lpVars, sndVars, axVars, dtVars>>
    \/ CkReadFrame /\ UNCHANGED <<rbVars, fsmVars, admVars, spVars, lpVars, sndVars, axVars, dtVars>>

SpecChecksum == InitChecksum /\ [][NextChecksum]_vars

\* the acceptor's main loop on an established session, under a clock
InitLoop == LoopInit /\ RbIdle /\ FsmIdle /\ AdmIdle /\ SpIdle /\ CkIdle /\ RestIdle

NextLoop ==
    \/ LoopTop /\ UNCHANGED <<rbVars, fsmVars, admVars, spVars, ckVars, sndVars, axVars, dtVars>>
    \/ LoopReceive /\ UNCHANGED <<rbVars, fsmVars, admVars, spVars, ckVars, sndVars, axVars, dtVars>>
    \/ LoopDisconnect /\ UNCHANGED <<rbVars, fsmVars, admVars, spVars, ckVars, sndVars, axVars, dtVars>>
    \/ LoopTimeout /\ UNCHANGED <<rbVars, fsmVars, admVars, spVars, ckVars, sndVars, axVars, dtVars>>
    \/ LoopTick /\ UNCHANGED <<rbVars, fsmVars, admVars, spVars, ckVars, sndVars, axVars, dtVars>>
    \/ LoopAppSend /\ UNCHANGED <<rbVars, fsmVars, admVars, spVars, ckVars, sndVars, axVars, dtVars>>
    \/ LoopClose /\ UNCHANGED <<rbVars, fsmVars, admVars, spVars, ckVars, sndVars, axVars, dtVars>>

SpecLoop == InitLoop /\ [][NextLoop]_vars

\* the acceptor's main loop from the moment the handler is called
InitLoopConnect == LoopConnectInit /\ RbIdle /\ FsmIdle /\ AdmIdle /\ SpIdle /\ CkIdle /\ RestIdle

NextLoopConnect ==
    \/ LoopTop /\ UNCHANGED <<rbVars, fsmVars, admVars, spVars, ckVars, sndVars, axVars, dtVars>>
    \/ LoopConnection /\ UNCHANGED <<rbVars, fsmVars, admVars, spVars, ckVars, sndVars, axVars, dtVars>>
    \/ LoopConnected /\ LoopReceive
           /\ UNCHANGED <<rbVars, fsmVars, admVars, spVars, ckVars, sndVars, axVars, dtVars>>
    \/ LoopConnected /\ LoopDisconnect
           /\ UNCHANGED <<rbVars, fsmVars, admVars, spVars, ckVars, sndVars, axVars, dtVars>>
    \/ LoopTimeout /\ UNCHANGED <<rbVars, fsmVars, admVars, spVars, ckVars, sndVars, axVars, dtVars>>
    \/ LoopTick /\ UNCHANGED <<rbVars, fsmVars, admVars, spVars, ckVars, sndVars, axVars, dtVars>>
    \/ LoopConnected /\ LoopAppSend
           /\ UNCHANGED <<rbVars, fsmVars, admVars, spVars, ckVars, sndVars, axVars, dtVars>>
    \/ LoopClose /\ UNCHANGED <<rbVars, fsmVars, admVars, spVars, ckVars, sndVars, axVars, dtVars>>

SpecLoopConnect == InitLoopConnect /\ [][NextLoopConnect]_vars

\* send_message calls that overlap on one session
InitSend ==
    SndInit /\ RbIdle /\ FsmIdle /\ AdmIdle /\ SpIdle /\ LpIdle /\ CkIdle
        /\ AxIdle /\ DtIdle

NextSend ==
    \/ (\E i \in Calls : SendMessageCall(i))
           /\ UNCHANGED <<rbVars, fsmVars, admVars, spVars, lpVars, ckVars,
                          axVars, dtVars>>
    \/ (\E i \in Calls : SendMessageResume(i))
           /\ UNCHANGED <<rbVars, fsmVars, admVars, spVars, lpVars, ckVars,
                          axVars, dtVars>>

SpecSend == InitSend /\ [][NextSend]_vars

\* the aiofix read buffer under the loop of test_read_valid_buffer
InitAiofix ==
    AxInit /\ RbIdle /\ FsmIdle /\ AdmIdle /\ SpIdle /\ LpIdle /\ CkIdle
        /\ SndIdle /\ DtIdle

NextAiofix ==
    \/ AxNextEvent
           /\ UNCHANGED <<rbVars, fsmVars, admVars, spVars, lpVars, ckVars,
                          sndVars, dtVars>>
    \/ AxReceive
           /\ UNCHANGED <<rbVars, fsmVars, admVars, spVars, lpVars, ckVars,
                          sndVars, dtVars>>
    \/ AxReceiveEmpty
           /\ UNCHANGED <<rbVars, fsmVars, admVars, spVars, lpVars, ckVars,
                          sndVars, dtVars>>

SpecAiofix == InitAiofix /\ [][NextAiofix]_vars

\* delay_for_time_period on every moment and window
InitDelay ==
    DtInit /\ RbIdle /\ FsmIdle /\ AdmIdle /\ SpIdle /\ LpIdle /\ CkIdle
        /\ SndIdle /\ AxIdle

NextDelay ==
    DtDelayForTimePeriod
        /\ UNCHANGED <<rbVars, fsmVars, admVars, spVars, lpVars, ckVars,
                       sndVars, axVars>>

SpecDelay == InitDelay /\ [][NextDelay]_vars

----------------------------------------------------------------------------
(* Claims                                                                  *)

\* s is an initial segment of t
IsPrefix(s, t) == Len(s) <= Len(t) /\ \A i \in 1..Len(s) : s[i] = t[i]

\* C1: however a concatenation of valid frames is split into chunks, the
\* DataReady events are the original frames, each once and in order: no read
\* error is raised, the frames emitted so far are always the first frames of the
\* stream, every frame whose bytes have all been fed has been emitted when the
\* buffer asks for more data, and all of them when the end of file is reported.
C1_Framing ==
    /\ rb_last # "error"
    /\ IsPrefix(rb_emitted, StreamFrames(rb_stream))
    /\ rb_last = "need" =>
          \A k \in 1..Len(rb_stream) :
              Len(StreamBytes(SubSeq(rb_stream, 1, k))) <= rb_pos
                  => Len(rb_emitted) >= k
    /\ rb_last = "eof" => rb_emitted = StreamFrames(rb_stream)

\* a stream of MaxFrames frames, split inside a frame, read to the end of file
C1_Witness ==
    /\ rb_last = "eof"
    /\ rb_split
    /\ Len(rb_emitted) = MaxFrames

\* C2: in the initiator, acceptor and transport tables, transition(event) from
\* state s yields the one next state the table defines for (s, event) and raises
\* InvalidStateTransitionError for every pair the table does not define.
C2_Totality ==
    fsm.event # "none" /\ fsm.kind \in FsmKinds =>
        LET table == FsmTable(fsm.kind)
        IN  IF fsm.from \in DOMAIN table /\ fsm.event \in DOMAIN table[fsm.from]
            THEN ~fsm.raised /\ fsm.state = table[fsm.from][fsm.event]
            ELSE fsm.raised

\* an undefined event offered in AUTHENTICATED, reached by defined transitions
C2_Witness ==
    /\ fsm.kind = "initiator"
    /\ fsm.from = "AUTHENTICATED"
    /\ fsm.event = "CONNECTED"
    /\ fsm.raised

\* C3: from DISCONNECTED the initiator machine's process(CONNECTED) sends exactly
\* one LOGON whose HeartBtInt is the configured heartbeat_timeout and returns in
\* LOGON_EXPECTED; process(LOGON_RECEIVED) then returns in AUTHENTICATED and
\* process(LOGOUT_RECEIVED) then returns in DISCONNECTED (the application
\* callbacks returning normally).
C3_InitiatorLogon ==
    adm_role = "initiator" /\ ~adm_call.app_raises =>
        /\ adm_call.from = "DISCONNECTED" /\ adm_call.event = "CONNECTED" =>
              /\ adm_call.raised = "none"
              /\ adm.state = "LOGON_EXPECTED"
              /\ Len(adm_call.sent) = 1
              /\ adm_call.sent[1].msg_type = "LOGON"
              /\ "HeartBtInt" \in adm_call.sent[1].body.has
              /\ adm_call.sent[1].body.HeartBtInt = adm_heartbeat_timeout
        /\ adm_call.from = "LOGON_EXPECTED" /\ adm_call.event = "LOGON_RECEIVED" =>
              adm_call.raised = "none" /\ adm.state = "AUTHENTICATED"
        /\ adm_call.from = "AUTHENTICATED" /\ adm_call.event = "LOGOUT_RECEIVED" =>
              adm_call.raised = "none" /\ adm.state = "DISCONNECTED"

\* the logout that ends a session which was logged on from DISCONNECTED
C3_Witness ==
    /\ adm_role = "initiator"
    /\ adm_call.from = "AUTHENTICATED"
    /\ adm_call.event = "LOGOUT_RECEIVED"
    /\ ~adm_call.app_raises
    /\ adm.state = "DISCONNECTED"
    /\ adm.outgoing_seqnum >= 1

\* the seqnums of the FIX_RECEIVED messages of a queue, in queue order
IsFixReceived(message) == message.event = "FIX_RECEIVED"

FixSeqNums(queue) ==
    LET fix == SelectSeq(queue, IsFixReceived)
    IN  [i \in 1..Len(fix) |-> fix[i].buffer.MsgSeqNum]

Range(s) == {s[i] : i \in 1..Len(s)}

\* C4: the k-th send_message call on a session whose stored outgoing seqnum was
\* prev assigns MsgSeqNum prev + k, so the first one on a fresh session assigns 1,
\* and the stored outgoing seqnum is the MsgSeqNum assigned last.
C4_ConsecutiveSeqNums ==
    /\ \A k \in 1..Len(hist.assigned) : hist.assigned[k] = hist.prev + k
    /\ acc.outgoing_seqnum = hist.prev + Len(hist.assigned)

\* calls made on a fresh session and on a used one, connected and not
C4_Witness ==
    /\ Len(hist.assigned) = MaxSends
    /\ hist.assigned[1] = 1
    /\ Len(hist.enqueued) = 1

\* C5: the frames the reader yields reach the acceptor's transport state
\* machine in the order received: what has been delivered is an initial segment
\* of what was yielded, and while the service loop runs every yielded frame is
\* delivered, on the read queue or held by the finished read task, in that order.
C5_InboundOrder ==
    /\ IsPrefix(hist.delivered, hist.yielded)
    /\ sp.pc \in {"wait", "drain"} =>
          hist.yielded =
              hist.delivered \o FixSeqNums(sp.read_queue)
              \o (IF sp.read_task.status = "data"
                  THEN <<sp.read_task.result.MsgSeqNum>> ELSE << >>)

\* two frames were delivered, and a third message was queued behind them
C5_Witness ==
    /\ Len(hist.delivered) = MaxPeerFrames
    /\ sp.read_queue # << >>

\* C6: the frames put on the write queue are written to the socket in the order
\* they were enqueued: what has been written is an initial segment of what was
\* enqueued, and while the service loop runs every enqueued frame is written,
\* held by the finished write task or on the write queue, in that order.
C6_OutboundOrder ==
    /\ IsPrefix(sp.writer.written, hist.enqueued)
    /\ sp.pc \in {"wait", "drain"} =>
          hist.enqueued =
              sp.writer.written
              \o (IF sp.write_task.status = "done"
                  THEN FixSeqNums(<<sp.write_task.result>>) ELSE << >>)
              \o FixSeqNums(sp.write_queue)

\* every frame enqueued was written, and there were several
C6_Witness ==
    /\ Len(hist.enqueued) = MaxSends
    /\ sp.writer.written = hist.enqueued

\* C7: a frame put on the write queue before the cancellation event was set has
\* been written to the socket when fix_stream_processor returns.
C7_SendCompletesBeforeShutdown ==
    (sp.pc = "done" /\ cancellation_event) =>
        Len(sp.writer.written) >= hist.enqueued_at_cancel

\* C8: when the processor has finished, every seqnum send_message took has been
\* handed to the socket writer.
C8_NoSeqNumWithoutWrite ==
    Over => Range(hist.assigned) \subseteq Range(sp.writer.written)

\* C9: the processor writes to the socket only from its service loop and only
\* while it has not closed the socket.
C9_NoWriteAfterClose == ~sp.writer.written_late

\* a DISCONNECT_RECEIVED write event closed the socket after a frame was
\* written, and the processor finished with a frame left on the write queue
C9_Witness ==
    /\ Over
    /\ sp.state = "HANDLER_CLOSED"
    /\ sp.writer.written # << >>
    /\ FixSeqNums(sp.write_queue) # << >>

\* C10: when the processor has finished after EOF or cancellation, it has
\* returned, or raised what its handler raised, and it has left no read task,
\* write task or handler behind.
C10_GracefulShutdown ==
    (/\ Over
     /\ sp.handler_task # "none"
     /\ (cancellation_event \/ sp.read_task.status = "eof")) =>
        /\ sp.raised \in {"none", "HandlerError"}
        /\ sp.read_task.status # "pending"
        /\ sp.write_task.status # "pending"
        /\ sp.handler_task \in {"done", "raised", "cancelled"}

\* the time of the send before the i-th one; the session's last send before the
\* loop was at time 0
PreviousSendTime(log, i) == IF i = 1 THEN 0 ELSE log[i - 1].at

\* C11: on an established session (admin state AUTHENTICATED) a HEARTBEAT is
\* sent only when a full heartbeat_timeout has passed since the previous send,
\* so never twice within one idle window, and while the loop runs the time since
\* the last send never exceeds heartbeat_timeout: the heartbeat goes out when
\* the idle time reaches it, and sending sets the idle time back to 0.
C11_HeartbeatWhenIdle ==
    /\ \A i \in 1..Len(lp.log) :
          lp.log[i].msg_type = "HEARTBEAT" =>
              lp.log[i].at - PreviousSendTime(lp.log, i) >= LoopHeartbeatTimeout
    /\ (lp.pc # "ended" /\ lp.a.state = "AUTHENTICATED"
            /\ lp.a.transport_state = "CONNECTED") =>
           lp.now - lp.last_send_time_utc <= LoopHeartbeatTimeout
    /\ (lp.log # << >> /\ lp.log[Len(lp.log)].msg_type = "HEARTBEAT") =>
           lp.last_send_time_utc = lp.log[Len(lp.log)].at

\* two heartbeats, the first when the idle time reached heartbeat_timeout and
\* the second a full heartbeat_timeout later, with nothing sent in between
C11_Witness ==
    /\ Len(lp.log) = 2
    /\ lp.log[1] = [msg_type |-> "HEARTBEAT", at |-> LoopHeartbeatTimeout]
    /\ lp.log[2] = [msg_type |-> "HEARTBEAT", at |-> 2 * LoopHeartbeatTimeout]
    /\ lp.a.state = "AUTHENTICATED"

\* the end-of-stream marker b'' has been fed (it stays at the end of the queue)
RbEofFed == rb.queue # << >> /\ rb.queue[Len(rb.queue)] = << >>

\* the bytes fed so far end inside a frame
RbFrameIncomplete == rb_pos \notin FrameEnds(rb_stream)

\* the frames whose bytes have all been fed
RbFramesFed ==
    Cardinality({k \in 1..Len(rb_stream) :
                    Len(StreamBytes(SubSeq(rb_stream, 1, k))) <= rb_pos})

\* C12: when the stream ends inside a frame, no call of next_event before the
\* end-of-stream marker is fed raises or reports EndOfFile, every such call made
\* once the complete frames are out returns NeedsMoreData, and the first call
\* after the marker raises a read error instead of DataReady or EndOfFile.
C12_TruncatedFrame ==
    /\ [](~RbEofFed => rb_last \notin {"error", "eof"})
    /\ [][(rb_last \in {"start", "fed", "data"} /\ RbFrameIncomplete
              /\ Len(rb_emitted) = RbFramesFed) =>
            IF RbEofFed THEN rb_last' = "error" ELSE rb_last' = "need"]_vars

\* a stream cut inside its second frame: the first frame came out, the marker
\* was fed and the call after it raised
C12_Witness ==
    /\ rb_last = "error"
    /\ RbEofFed
    /\ RbFrameIncomplete
    /\ Len(rb_emitted) = 1
    /\ rb.state = "EXPECT_BODY"

\* C13: in the acceptor's admin machine, when on_logon raises LoginError or any
\* other exception while LOGON_RECEIVED is handled in LOGON_EXPECTED, that
\* exception does not leave process(): _validate_logon and then _send_logout
\* run, the machine rests in REJECT_LOGON, and a LOGOUT and no LOGON is sent.
C13_LogonRejected ==
    (adm_role = "acceptor_machine" /\ adm_call.event = "FIX_RECEIVED"
        /\ adm_call.msg_type = "LOGON" /\ adm_call.from = "LOGON_EXPECTED"
        /\ adm_call.transport_from = "CONNECTED"
        /\ adm_call.raising = "on_logon") =>
        /\ adm_call.raised = "none"
        /\ adm_call.ran = <<"_validate_logon", "_send_logout">>
        /\ adm.state = "REJECT_LOGON"
        /\ \A i \in 1..Len(adm_call.sent) : adm_call.sent[i].msg_type # "LOGON"
        /\ \E i \in 1..Len(adm_call.sent) : adm_call.sent[i].msg_type = "LOGOUT"

\* a logon whose on_logon raised something other than LoginError
C13_Witness ==
    /\ adm_role = "acceptor_machine"
    /\ adm_call.event = "FIX_RECEIVED"
    /\ adm_call.msg_type = "LOGON"
    /\ adm_call.from = "LOGON_EXPECTED"
    /\ adm_call.on_logon = "Exception"
    /\ adm.state = "REJECT_LOGON"
    /\ adm.transport_state = "CONNECTED"

\* C14: when an application callback other than on_logon (on_admin_message,
\* on_heartbeat, on_logout, on_application_message) raises while a frame is
\* handled on an established session, the exception does not leave process()
\* and the transport machine is back in CONNECTED, ready for the next frame.
C14_CallbackContained ==
    (adm_call.event = "FIX_RECEIVED" /\ adm_call.transport_from = "CONNECTED"
        /\ adm_call.from = "AUTHENTICATED"
        /\ adm_call.raising \in Callbacks \ {"on_logon"}) =>
        /\ adm_call.raised = "none"
        /\ adm.transport_state = "CONNECTED"

\* C17: when the timeout after an unanswered TEST_REQUEST comes (the admin
\* machine waiting in VALIDATE_TEST_HEARTBEAT, the peer still silent), the
\* acceptor's admin machine moves to REJECT_LOGON and a LOGOUT is sent, and the
\* initiator sends another TEST_REQUEST.
C17_UnansweredTestRequest ==
    (adm_call.event = "TIMEOUT_RECEIVED" /\ adm_call.transport_from = "CONNECTED"
        /\ adm_call.from = "VALIDATE_TEST_HEARTBEAT" /\ adm_call.overdue) =>
        /\ adm_call.raised = "none"
        /\ IF adm_role = "acceptor_machine"
           THEN /\ adm.state = "REJECT_LOGON"
                /\ \E i \in 1..Len(adm_call.sent) :
                       adm_call.sent[i].msg_type = "LOGOUT"
           ELSE \E i \in 1..Len(adm_call.sent) :
                    adm_call.sent[i].msg_type = "TEST_REQUEST"

\* C15: when the reader meets a frame that breaks the framing (BeginString tag,
\* BodyLength tag, terminating separator or checksum) and the processor is
\* over, the handler has been sent DISCONNECT_RECEIVED and the socket is
\* closed.
C15_FramingErrorTerminates ==
    (hist.read_error # "none" /\ Over) =>
        /\ hist.disconnects >= 1
        /\ sp.writer.closed

BeforeCheckSum(buf) == Slice(buf, 0, Len(buf) - 7)

\* the frame ends with the field 10=ccc<sep>, ccc three decimal digits
EndsWithCheckSum(buf, checksum, sep) ==
    /\ Len(checksum) = 3
    /\ \A i \in 1..3 : IsDigit(checksum[i])
    /\ EndsWith(buf, <<D1, D0, EQ>> \o checksum \o <<sep>>)

\* C19 as stated: the checksum of the encoder and of calc_checksum is the sum
\* of the frame's bytes before its CheckSum field, modulo 256, as three zero
\* padded decimal digits.
C19_CheckSumOfFrameBytes ==
    ck.pc = "done" =>
        /\ EndsWithCheckSum(ck.buf, ck.checksum_str, ck.sep)
        /\ ck.calc_checksum = ck.checksum_str
        /\ ParseInt(ck.checksum_str) = SumBytes(BeforeCheckSum(ck.buf)) % 256

\* C19, amended: the checksum of the encoder and of calc_checksum is the sum of
\* the frame's bytes before its CheckSum field, each separator counted as SOH
\* when the separator is not SOH and the conversion flag is set, modulo 256, as
\* three zero padded decimal digits.
C19_CheckSum ==
    ck.pc = "done" =>
        /\ EndsWithCheckSum(ck.buf, ck.checksum_str, ck.sep)
        /\ ck.calc_checksum = ck.checksum_str
        /\ ParseInt(ck.checksum_str) =
               SumBytes(IF ck.sep # SOH /\ ck.convert
                        THEN Replace(BeforeCheckSum(ck.buf), ck.sep, SOH)
                        ELSE BeforeCheckSum(ck.buf)) % 256

\* a frame with the separator |, the flag set, whose byte sum passes 256 and
\* whose checksum needs its zero padding
C19_Witness ==
    /\ ck.pc = "done"
    /\ ck.sep = BAR
    /\ ck.convert
    /\ SumBytes(BeforeCheckSum(ck.buf)) > 256
    /\ ck.calc_checksum[1] = D0

\* C20: in the initiator's admin machine, process() of HEARTBEAT_RECEIVED,
\* TEST_REQUEST_RECEIVED (with its TestReqID), RESEND_REQUEST_RECEIVED or
\* SEQUENCE_RESET_RECEIVED (with its NewSeqNo) in AUTHENTICATED returns in
\* AUTHENTICATED without raising, and of LOGOUT_RECEIVED in DISCONNECTED (the
\* application callbacks returning normally).
C20_InitiatorRoundTrips ==
    (adm_role = "initiator" /\ adm_call.from = "AUTHENTICATED"
        /\ ~adm_call.app_raises) =>
        /\ (\/ adm_call.event \in {"HEARTBEAT_RECEIVED", "RESEND_REQUEST_RECEIVED"}
            \/ adm_call.event = "TEST_REQUEST_RECEIVED"
                   /\ "TestReqID" \in adm_call.fix.has
            \/ adm_call.event = "SEQUENCE_RESET_RECEIVED"
                   /\ "NewSeqNo" \in adm_call.fix.has) =>
               adm_call.raised = "none" /\ adm.state = "AUTHENTICATED"
        /\ adm_call.event = "LOGOUT_RECEIVED" =>
               adm_call.raised = "none" /\ adm.state = "DISCONNECTED"

\* C21: once an inbound SEQUENCE_RESET carrying NewSeqNo = n has been handled
\* and the transport machine is back in CONNECTED, the stored incoming seqnum
\* is n.
C21_SequenceResetApplied ==
    (adm_call.event = "FIX_RECEIVED" /\ adm_call.msg_type = "SEQUENCE_RESET"
        /\ "NewSeqNo" \in adm_call.fix.has /\ adm_call.raised = "none"
        /\ adm.transport_state = "CONNECTED") =>
        adm.incoming_seqnum = adm_call.fix.NewSeqNo

\* C22: with a test request outstanding (TEST_HEARTBEAT_REQUIRED has sent a
\* TEST_REQUEST carrying a fresh token and the admin machine waits in
\* VALIDATE_TEST_HEARTBEAT), the next inbound HEARTBEAT is checked against the
\* stored token: the machine returns to AUTHENTICATED when its TestReqID is the
\* token and moves to REJECT_LOGON otherwise.
C22_TestHeartbeatValidated ==
    (adm_call.event = "FIX_RECEIVED" /\ adm_call.msg_type = "HEARTBEAT"
        /\ adm_call.from = "VALIDATE_TEST_HEARTBEAT"
        /\ "TestReqID" \in adm_call.fix.has /\ adm_call.raising = "none") =>
        /\ adm_call.raised = "none"
        /\ adm.state = IF adm_call.fix.TestReqID = adm.test_heartbeat_message
                       THEN "AUTHENTICATED" ELSE "REJECT_LOGON"

\* C23: when the acceptor rejects a logon (on_logon raised while LOGON_RECEIVED
\* was handled in LOGON_EXPECTED), a LOGOUT is sent and the admin machine goes
\* on from REJECT_LOGON through SEND_LOGOUT to DISCONNECTED: the call does not
\* leave it in REJECT_LOGON.
C23_RejectedLogonDisconnects ==
    (adm_role = "acceptor_machine" /\ adm_call.event = "FIX_RECEIVED"
        /\ adm_call.msg_type = "LOGON" /\ adm_call.from = "LOGON_EXPECTED"
        /\ adm_call.transport_from = "CONNECTED"
        /\ adm_call.raising = "on_logon") =>
        /\ \E i \in 1..Len(adm_call.sent) : adm_call.sent[i].msg_type = "LOGOUT"
        /\ adm.state = "DISCONNECTED"

\* C24: a TEST_REQUEST received in AUTHENTICATED makes the admin machine, the
\* initiator's and the acceptor's alike, send exactly one message: a HEARTBEAT
\* whose TestReqID is that of the TEST_REQUEST.
C24_TestRequestEchoed ==
    (adm_call.event = "FIX_RECEIVED" /\ adm_call.msg_type = "TEST_REQUEST"
        /\ adm_call.from = "AUTHENTICATED" /\ adm_call.transport_from = "CONNECTED"
        /\ "TestReqID" \in adm_call.fix.has /\ adm_call.raising = "none") =>
        /\ Len(adm_call.sent) = 1
        /\ adm_call.sent[1].msg_type = "HEARTBEAT"
        /\ adm_call.sent[1].body.TestReqID = adm_call.fix.TestReqID

\* C25: a RESEND_REQUEST received in AUTHENTICATED with stored outgoing seqnum
\* n is answered by exactly one message, a SEQUENCE_RESET with GapFillFlag
\* false and NewSeqNo = n + 2 (nothing is replayed), and the machine returns to
\* AUTHENTICATED.
C25_GapFillNoReplay ==
    [][(adm_call'.event = "FIX_RECEIVED" /\ adm_call'.msg_type = "RESEND_REQUEST"
           /\ adm.state = "AUTHENTICATED" /\ adm.transport_state = "CONNECTED"
           /\ adm_call'.raising = "none") =>
           /\ Len(adm_call'.sent) = 1
           /\ adm_call'.sent[1].msg_type = "SEQUENCE_RESET"
           /\ adm_call'.sent[1].body.has = {"GapFillFlag", "NewSeqNo"}
           /\ adm_call'.sent[1].body.GapFillFlag = FALSE
           /\ adm_call'.sent[1].body.NewSeqNo = adm.outgoing_seqnum + 2
           /\ adm_call'.raised = "none"
           /\ adm'.state = "AUTHENTICATED"]_vars

\* a resend request answered while the stored outgoing seqnum was 2
C25_Witness ==
    /\ adm_call.event = "FIX_RECEIVED"
    /\ adm_call.msg_type = "RESEND_REQUEST"
    /\ adm_call.from = "AUTHENTICATED"
    /\ adm_call.raised = "none"
    /\ Len(adm_call.sent) = 1
    /\ adm_call.sent[1].body.NewSeqNo = 4
    /\ adm.state = "AUTHENTICATED"

\* C26: every TIMEOUT_RECEIVED processed while the transport machine is in
\* CONNECTED returns it to CONNECTED without raising, whatever the admin state;
\* when the admin state is not AUTHENTICATED, or the peer is not overdue, no
\* admin handler runs and the admin state is left as it was.
C26_TimeoutReturnsToConnected ==
    (adm_call.event = "TIMEOUT_RECEIVED" /\ adm_call.transport_from = "CONNECTED") =>
        /\ adm_call.raised = "none"
        /\ adm.transport_state = "CONNECTED"
        /\ (adm_call.from # "AUTHENTICATED" \/ ~adm_call.overdue) =>
               adm_call.ran = << >> /\ adm.state = adm_call.from

\* C27: when a pass of the main loop reaches its wait with the connection made
\* and the admin state not AUTHENTICATED (the logon not completed), the wait it
\* has computed is exactly logon_timeout seconds.
C27_LogonTimeoutBeforeLogon ==
    [][(lp.pc = "top" /\ lp'.pc = "waiting"
           /\ lp'.a.transport_state = "CONNECTED"
           /\ lp'.a.state # "AUTHENTICATED") =>
           lp'.deadline = lp'.now + LogonTimeout]_vars

\* C28: after a transport message has been processed the main loop starts
\* another pass if and only if the transport machine is then in CONNECTED; a
\* DISCONNECT_RECEIVED (CONNECTED to DISCONNECTED) ends the loop by its return,
\* and a loop that is over never calls into the machines again.
C28_LoopWhileConnected ==
    [][/\ (lp.pc = "waiting" /\ lp'.pc # "waiting") =>
              (lp'.pc = "top" <=> lp'.a.transport_state = "CONNECTED")
       /\ (lp.a.transport_state = "CONNECTED"
              /\ lp'.a.transport_state = "DISCONNECTED") =>
              (lp'.pc = "ended" /\ lp'.ended = "returned")
       /\ lp.pc = "ended" => (lp'.pc = "ended" /\ lp'.a = lp.a)]_vars

\* the loop went on after a frame (its MsgSeqNum stored) and returned on the
\* disconnect that followed
C28_Witness ==
    /\ lp.pc = "ended"
    /\ lp.ended = "returned"
    /\ lp.a.transport_state = "DISCONNECTED"
    /\ lp.a.incoming_seqnum = 1
    /\ lp.closed

\* C29: from every read-buffer state (IDLE, EXPECT_BEGIN_STRING,
\* EXPECT_BODY_LENGTH, EXPECT_BODY) a call of next_event() that finds the
\* end-of-stream marker at the head of the queue returns EndOfFile and moves
\* the buffer to END_OF_FILE, and the call after it moves it to CLOSED.
C29_EofFromAnyState ==
    [][(InputState(rb.queue) = "EOF" /\ rb_last' # "fed") =>
           /\ rb_last' = "eof"
           /\ rb'.state = IF rb.state = "END_OF_FILE" THEN "CLOSED"
                          ELSE "END_OF_FILE"]_vars

\* C29, as the code has it: with the end-of-stream marker at the head of the
\* queue, next_event() in IDLE returns EndOfFile and moves the buffer to
\* END_OF_FILE, and called again returns EndOfFile and moves it to CLOSED; in
\* EXPECT_BEGIN_STRING, EXPECT_BODY_LENGTH and EXPECT_BODY it raises
\* FixReadError and the state stays as it was.
C29_EofFromIdle ==
    [][(InputState(rb.queue) = "EOF" /\ rb_last' # "fed") =>
           CASE rb.state = "IDLE" ->
                    rb_last' = "eof" /\ rb'.state = "END_OF_FILE"
             [] rb.state = "END_OF_FILE" ->
                    rb_last' = "eof" /\ rb'.state = "CLOSED"
             [] OTHER ->
                    rb_last' = "error" /\ rb'.state = rb.state]_vars

\* a stream read to its end: every frame came out, EndOfFile was returned twice
\* and the buffer is CLOSED
C29_Witness ==
    /\ rb.state = "CLOSED"
    /\ rb_last = "eof"
    /\ Len(rb_emitted) = Len(rb_stream)
    /\ Len(rb_stream) >= 1

\* the CheckSum value a frame carries: the three bytes before its last separator
CheckSumField(buf) == Slice(buf, Len(buf) - 4, Len(buf) - 1)

\* C30: a validating read buffer returns DataReady for a frame only when the
\* frame's CheckSum field is the checksum recomputed over the frame (the
\* separator converted to SOH as configured); for any other CheckSum value it
\* raises FixReadError.
C30_WrongCheckSumRejected ==
    ck.pc = "read" =>
        IF CheckSumField(ck.buf) = CalcChecksum(ck.buf, RbSep, RbConvert)
        THEN ck.read = "data"
        ELSE ck.read = "error"

\* a frame whose CheckSum is one more than the recomputed one was refused
C30_Witness ==
    /\ ck.pc = "read"
    /\ ParseInt(CheckSumField(ck.buf)) = ParseInt(ck.checksum_str) + 1
    /\ ck.read = "error"

\* C31: when process() is given an event that is undefined for the current
\* state, InvalidStateTransitionError is raised before any handler runs: no
\* admin handler is invoked, nothing is sent, and the state is left as it was.
\* The first conjunct is the transport processor, the second the admin
\* processor on the event of an inbound admin frame.
C31_UndefinedEventRaisesFirst ==
    /\ (adm_call.event # "none"
           /\ ~HasKey(TRANSITIONS, adm_call.transport_from, adm_call.event)) =>
           /\ adm_call.raised = "InvalidStateTransitionError"
           /\ adm_call.ran = << >> /\ adm_call.sent = << >>
           /\ adm.transport_state = adm_call.transport_from
           /\ adm.state = adm_call.from
    /\ (adm_call.event = "FIX_RECEIVED" /\ adm_call.transport_from = "CONNECTED"
           /\ adm_call.msg_type \in AdminMsgTypes /\ adm_call.raising = "none"
           /\ ~HasKey(AdminTable(adm_role), adm_call.from,
                      AdminEventFromMsgType(adm_call.msg_type))) =>
           /\ adm_call.raised = "InvalidStateTransitionError"
           /\ adm_call.ran = << >> /\ adm_call.sent = << >>
           /\ adm.state = adm_call.from

\* a HEARTBEAT that came before the logon: HEARTBEAT_RECEIVED is undefined in
\* LOGON_EXPECTED
C31_Witness ==
    /\ adm_call.event = "FIX_RECEIVED"
    /\ adm_call.transport_from = "CONNECTED"
    /\ adm_call.msg_type = "HEARTBEAT"
    /\ adm_call.from = "LOGON_EXPECTED"
    /\ adm_call.raised = "InvalidStateTransitionError"
    /\ adm.state = "LOGON_EXPECTED"

\* C32: every call of process() terminates: the chain of follow-up events its
\* handlers return is finite and revisits nothing, so no admin handler runs
\* twice in one call and at most two run for one incoming event.
C32_HandlerChainFinite ==
    /\ Len(adm_call.ran) <= 2
    /\ \A i, j \in 1..Len(adm_call.ran) : i # j => adm_call.ran[i] # adm_call.ran[j]

\* the longest chain: the acceptor's logon, validated and answered
C32_Witness ==
    /\ adm_role = "acceptor_machine"
    /\ adm_call.ran = <<"_validate_logon", "_send_logon">>
    /\ adm_call.raised = "none"
    /\ adm.state = "AUTHENTICATED"

\* the states a table leads to from `state` in one transition
Successors(table, state) ==
    IF state \in DOMAIN table
    THEN {table[state][event] : event \in DOMAIN table[state]}
    ELSE {}

\* the states a table leads to from the states S in any number of transitions
RECURSIVE Closure(_, _)
Closure(table, S) ==
    LET Grown(N) == IF N = S THEN S ELSE Closure(table, N)
    IN  Grown(S \cup UNION {Successors(table, s) : s \in S})

\* C33: in both admin tables every reachable state other than DISCONNECTED has
\* an outgoing transition, and from every reachable state DISCONNECTED or
\* AUTHENTICATED can be reached again: no state is a dead end.
C33_NoDeadEnd ==
    fsm.kind \in {"initiator", "acceptor"} =>
        /\ fsm.state # "DISCONNECTED" =>
               Successors(FsmTable(fsm.kind), fsm.state) # {}
        /\ Closure(FsmTable(fsm.kind), Successors(FsmTable(fsm.kind), fsm.state))
               \cap {"DISCONNECTED", "AUTHENTICATED"} # {}

\* C34: once an inbound LOGOUT has left the admin machine in DISCONNECTED (the
\* transport machine still CONNECTED), the session ends cleanly: the timeout
\* ticks and the disconnect that follow send nothing and raise nothing.
C34_CleanEndAfterLogout ==
    (adm_call.from = "DISCONNECTED" /\ adm_call.transport_from = "CONNECTED"
        /\ adm_call.event \in {"TIMEOUT_RECEIVED", "DISCONNECT_RECEIVED"}) =>
        /\ adm_call.raised = "none"
        /\ adm_call.sent = << >>

\* C35: send_message calls that overlap on one session are given distinct
\* MsgSeqNum values and their frames stand on the write queue in increasing
\* MsgSeqNum order.
C35_OverlappingSendsOrdered ==
    /\ \A i, j \in Calls :
          (i # j /\ snd.call[i].pc # "idle" /\ snd.call[j].pc # "idle") =>
              snd.call[i].msg_seq_num # snd.call[j].msg_seq_num
    /\ \A k \in 1..(Len(snd.write_queue) - 1) :
          snd.write_queue[k] < snd.write_queue[k + 1]

\* C39: the aiofix read buffer reports EndOfFile only after the caller has
\* passed an empty buffer to receive(); after a frame that ends exactly at the
\* end of the bytes received so far it asks for more data.
C39_EndOfFileOnlyAfterEmpty == ax.last = "eof" => ax.received_empty

\* the wait and the end C40 describes: no wait inside the window, else the
\* time until the next start; the end of the window that contains now, else
\* of the next window
ExpectedDelay(now, start_time, end_time) ==
    LET t == now % TicksPerDay
        inside == IsTimeInRange(start_time, end_time, t)
        end_today == Combine(now, end_time)
    IN  [time_to_wait |-> IF inside THEN 0
                          ELSE (start_time - t + TicksPerDay) % TicksPerDay,
         end_datetime |-> IF t <= end_time THEN end_today
                          ELSE end_today + TicksPerDay]

\* C40: delay_for_time_period returns a zero wait exactly when now lies inside
\* the window (wrapping windows included), otherwise the time until the next
\* start, and the end of the window that contains now or of the next one.
C40_DelayForTimePeriod ==
    (dt.pc = "returned" /\ dt.start_time # dt.end_time) =>
        /\ dt.time_to_wait = 0 <=>
               IsTimeInRange(dt.start_time, dt.end_time, dt.now % TicksPerDay)
        /\ dt.time_to_wait =
               ExpectedDelay(dt.now, dt.start_time, dt.end_time).time_to_wait
        /\ dt.end_datetime =
               ExpectedDelay(dt.now, dt.start_time, dt.end_time).end_datetime

\* C36: whenever fix_stream_processor has returned after having started its
\* tasks (the handler completed, a DISCONNECT_RECEIVED write event, a
\* cancellation or the end of the peer's stream), the socket writer is closed.
C36_WriterClosedOnReturn ==
    (sp.pc = "done" /\ sp.state # "OK") => sp.writer.closed

C38_NewSeqNoIsNextMsgSeqNum ==
    /\ (adm_call.last_sent.msg_type = "SEQUENCE_RESET" /\ adm_call.sent # << >>) =>
           adm_call.sent[1].MsgSeqNum = adm_call.last_sent.body.NewSeqNo
    /\ \A i \in 1..(Len(adm_call.sent) - 1) :
           adm_call.sent[i].msg_type = "SEQUENCE_RESET" =>
               adm_call.sent[i + 1].MsgSeqNum = adm_call.sent[i].body.NewSeqNo

\* a message has followed a SEQUENCE_RESET that answered a resend request
C38_Witness ==
    /\ adm_call.last_sent.msg_type = "SEQUENCE_RESET"
    /\ adm_call.last_sent.body.NewSeqNo = adm_call.last_sent.MsgSeqNum + 1
    /\ adm_call.sent # << >>
    /\ adm_call.sent[1].MsgSeqNum = adm_call.last_sent.body.NewSeqNo

====
